---------------------------- MODULE Spec2Model ----------------------------
(***************************************************************************)
(* A model of OpenGMK's per-frame draw pipeline (src/src/game/draw.rs):    *)
(* Game::draw, Game::draw_view with its nested draw_instance / draw_tile   *)
(* and the merge loop over the two depth-ordered lists, and the bitmap     *)
(* font measurement Game::get_string_size.                                 *)
(*                                                                         *)
(* The instance list, the tile list and the GML executor are collaborators *)
(* whose code is outside src/; they are modelled from spec.md (sections    *)
(* 3, 4.C, 4.H and 5).                                                     *)
(***************************************************************************)
EXTENDS Integers, Sequences, FiniteSets, TLC

VARIABLES
    pc,             \* where Game::draw stands (see the actions below)
    frame,          \* number of the current call of Game::draw
    result,         \* what the last call of Game::draw returned
    views_enabled,  \* Game.views_enabled
    views,          \* Game.views (each view reduced to its visible flag)
    view_current,   \* Game.view_current
    count,          \* the local `count` of Game::draw
    backgrounds,    \* Game.backgrounds, the background/foreground layers
    instance_list,  \* Game.instance_list: slots, a removed element leaves <<>>
    inst_order,     \* the instance list's cached draw order
    tile_list,      \* Game.tile_list
    tile_order,     \* the tile list's cached draw order
    iter_inst,      \* position of the iterator iter_inst in inst_order
    iter_inst_v,    \* the local iter_inst_v: Option<usize>
    iter_tile,      \* position of the iterator iter_tile in tile_order
    iter_tile_v,    \* the local iter_tile_v: Option<usize>
    renderer,       \* the renderer calls made by the current Game::draw
    frame_open,     \* the renderer holds submissions not yet closed by finish
    presses,        \* the input manager's one-frame press buffer is non-empty
    hist,           \* history of the current frame (observation only)
    text,           \* a call of get_string_size or draw_string: arguments, locals
    real            \* an operation on Real values: its operands and result

vars == <<pc, frame, result, views_enabled, views, view_current, count,
          backgrounds, instance_list, inst_order, tile_list, tile_order,
          iter_inst, iter_inst_v, iter_tile, iter_tile_v, renderer,
          frame_open, presses, hist, text, real>>

-----------------------------------------------------------------------------
(* Bounds of the model. *)

MaxInst == 3
MaxTile == 2
MaxViews == 3
MaxLayers == 2
MaxFrames == 2
MaxScripted == 2
MaxMutations == 1

(* Option<T>. *)
None == <<>>
Some(x) == <<x>>
IsSome(o) == Len(o) = 1
Unwrap(o) == o[1]

SeqsUpTo(n, S) == UNION {[1..k -> S] : k \in 0..n}

-----------------------------------------------------------------------------
(* Assets: index-keyed, an entry may be absent. *)

\* assets.sprites: sprite 0 has two frames, sprite 1 has none, slot 2 is empty.
assets_sprites == <<Some([frames |-> 2]), Some([frames |-> 0]), None>>

\* assets.backgrounds: background 0 has an atlas, background 1 has none,
\* slot 2 is empty.
assets_backgrounds == <<Some([atlas_ref |-> Some(<<0>>)]), Some([atlas_ref |-> None]), None>>

\* Vec::get with an index converted by `as usize`: a negative index wraps to a
\* huge one and yields None.
VecGet(vec, i) == IF i >= 0 /\ i < Len(vec) THEN Some(vec[i + 1]) ELSE None

\* assets.sprites.get(i) matched against Some(Some(sprite)).
GetSprite(i) ==
    LET e == VecGet(assets_sprites, i)
    IN  IF IsSome(e) THEN Unwrap(e) ELSE None

\* assets.backgrounds.get(i) / get_asset(i), an Option<background>.
GetBackground(i) ==
    LET e == VecGet(assets_backgrounds, i)
    IN  IF IsSome(e) THEN Unwrap(e) ELSE None

\* get_asset(id).and_then(|x| x.atlas_ref.as_ref())
BackgroundAtlas(i) ==
    LET b == GetBackground(i)
    IN  IF IsSome(b) THEN Unwrap(b).atlas_ref ELSE None

\* Game.custom_draw_objects: the objects with a user-defined DRAW event.
custom_draw_objects == {1}

-----------------------------------------------------------------------------
(* The instance list and the tile list (spec.md 3 and 4.C): slots with     *)
(* stable indices and a cached draw order, a permutation of the indices    *)
(* sorted by descending depth, rebuilt by draw_sort.                       *)

Present(list, idx) == idx \in 1..Len(list) /\ IsSome(list[idx])

\* list.get(idx)
ListGet(list, idx) == IF Present(list, idx) THEN list[idx] ELSE None

\* idx comes before j in the draw order: greater depth first, and among equal
\* depths the one inserted first (the sort is stable).
DrawsBefore(list, i, j) ==
    \/ Unwrap(list[i]).depth > Unwrap(list[j]).depth
    \/ Unwrap(list[i]).depth = Unwrap(list[j]).depth /\ i <= j

RECURSIVE SortByDepth(_, _)
SortByDepth(list, S) ==
    IF S = {} THEN <<>>
    ELSE LET i == CHOOSE i \in S : \A j \in S : DrawsBefore(list, i, j)
         IN  <<i>> \o SortByDepth(list, S \ {i})

\* draw_sort(): the rebuilt draw order.
DrawSortOrder(list) == SortByDepth(list, {i \in 1..Len(list) : IsSome(list[i])})

\* iter.next(&list): the next index of the cached order whose element still
\* exists, and the iterator's new position.
RECURSIVE IterNext(_, _, _)
IterNext(order, pos, list) ==
    IF pos >= Len(order) THEN [v |-> None, pos |-> pos]
    ELSE IF Present(list, order[pos + 1])
         THEN [v |-> Some(order[pos + 1]), pos |-> pos + 1]
         ELSE IterNext(order, pos + 1, list)

\* list.insert(el): a new slot at the end; the cached order is left as it is
\* until the next draw_sort.
ListInsert(list, el) == Append(list, Some(el))

\* list.remove(idx): the slot is emptied, the other indices stay.
ListRemove(list, idx) == [list EXCEPT ![idx] = None]

-----------------------------------------------------------------------------
(* The entities of the scene, reduced to the fields the draw pass reads.   *)

Depths == {5, 7, 10}

\* The depths of the elements DRAW events insert.
InsertDepths == {10}

\* The depths of the tiles of the rooms without scripts.
TileDepths == {5, 7}

\* image_index is a Real: the model counts it in halves (3 is 1.5).
Instance(obj, spr, img, d) ==
    [object_index |-> obj, sprite_index |-> spr, image_index |-> img, depth |-> d]

\* An instance drawn from sprite 0, and one whose object has a DRAW event.
Plain(d) == Instance(0, 0, 0, d)
Scripted(d) == Instance(1, 0, 0, d)

Tile(bg, d) == [background_index |-> bg, depth |-> d]

Layer(bg, vis, fg) == [background_id |-> bg, visible |-> vis, is_foreground |-> fg]

-----------------------------------------------------------------------------
(* Renderer calls, as the renderer receives them. `src` names the place of *)
(* draw.rs that made the call, `id` the view, layer, instance or tile it   *)
(* was made for.                                                           *)

SetViewCall(v, vc) == [op |-> "set_view", src |-> "view", id |-> v, arg |-> <<vc>>]
DrawSpriteCall(src, id, atlas) == [op |-> "draw_sprite", src |-> src, id |-> id, arg |-> atlas]
DrawPartialCall(src, id, atlas) == [op |-> "draw_sprite_partial", src |-> src, id |-> id, arg |-> atlas]
FinishCall == [op |-> "finish", src |-> "draw", id |-> 0, arg |-> <<>>]

-----------------------------------------------------------------------------
(* Decisions of Game::draw and Game::draw_view.                            *)

\* Mutant: every view is drawn, visible or not.
ViewDrawn_Always(view) == TRUE

\* `if view.visible`
ViewDrawn(view) == view.visible

\* The filter of the background loop.
IsBackgroundLayer(l) == l.visible /\ ~l.is_foreground

\* Mutant: the foreground loop forgets the is_foreground test.
IsForegroundLayer_AnyVisible(l) == l.visible

\* The filter of the foreground loop.
IsForegroundLayer(l) == l.visible /\ l.is_foreground

LayerSelected(l, phase) ==
    IF phase = "background" THEN IsBackgroundLayer(l) ELSE IsForegroundLayer(l)

\* One of the two loops over self.backgrounds: a draw_sprite for every layer
\* the filter keeps and whose background has an atlas, in list order.
RECURSIVE LayerCalls(_, _, _)
LayerCalls(layers, i, phase) ==
    IF i > Len(layers) THEN <<>>
    ELSE LET l == layers[i]
             atlas == BackgroundAtlas(l.background_id)
         IN  (IF LayerSelected(l, phase) /\ IsSome(atlas)
              THEN <<DrawSpriteCall(phase, i, Unwrap(atlas))>>
              ELSE <<>>) \o LayerCalls(layers, i + 1, phase)

\* Mutant: on equal depths the tile is drawn first.
InstanceFirst_Strict(inst_depth, tile_depth) == inst_depth > tile_depth

\* inst.depth.cmp(&tile.depth) is Greater or Equal: the instance is drawn.
InstanceFirst(inst_depth, tile_depth) == inst_depth >= tile_depth

\* custom_draw_objects.contains(&instance.object_index)
\* Mutant: no object counts as having a DRAW event.
IsCustomDraw_Never(inst) == FALSE

IsCustomDraw(inst) == inst.object_index \in custom_draw_objects

\* instance.image_index.get().floor() as i32, of an image_index in halves.
FloorIndex(halves) == halves \div 2

\* Rust's i32 `%` for a positive divisor: the sign follows the dividend.
RustRem(a, b) == IF a >= 0 THEN a % b ELSE 0 - ((0 - a) % b)

\* The default draw action of draw_instance: "panic" (the remainder by a
\* frame count of zero), "skip" (no renderer call) or "draw" with the atlas.
DefaultDraw(inst) ==
    LET sprite == GetSprite(inst.sprite_index)
    IN  IF ~IsSome(sprite) THEN [kind |-> "skip", atlas |-> <<>>]
        ELSE LET frames == Unwrap(sprite).frames
             IN  IF frames = 0 THEN [kind |-> "panic", atlas |-> <<>>]
                 ELSE LET image_index == RustRem(FloorIndex(inst.image_index), frames)
                      IN  IF image_index >= 0 /\ image_index < frames
                          THEN [kind |-> "draw",
                                atlas |-> <<inst.sprite_index, image_index>>]
                          ELSE [kind |-> "skip", atlas |-> <<>>]

\* draw_tile: the atlas draw_sprite_partial is called with, if any.
TileAtlas(tile) == BackgroundAtlas(tile.background_index)

-----------------------------------------------------------------------------
(* Fonts and Game::get_string_size.                                        *)

MaxLen == 4

Chars == {"A", "B", "C", "#", "\\"}
FontChars == Chars \cup {"M"}

Glyph(w, h, o, d) ==
    [x |-> 0, y |-> 0, width |-> w, height |-> h, offset |-> o, distance |-> d]

\* Three fonts. In none has the backslash a glyph; the second has no 'C' and
\* no 'M', a 'B' wider than the widest line asked for and an 'A' that does
\* not advance the cursor; in the third no glyph advances the cursor by more
\* than its width and none is wider than the widest line asked for.
Font1 ==
    [c \in FontChars |->
        CASE c = "A" -> Some(Glyph(10, 16, 1, 12))
          [] c = "B" -> Some(Glyph(8, 16, 0, 10))
          [] c = "C" -> Some(Glyph(6, 16, 2, 8))
          [] c = "#" -> Some(Glyph(4, 16, 0, 5))
          [] c = "M" -> Some(Glyph(14, 16, 0, 15))
          [] OTHER -> None]
Font2 ==
    [c \in FontChars |->
        CASE c = "A" -> Some(Glyph(10, 12, 0, 0))
          [] c = "B" -> Some(Glyph(30, 12, 0, 30))
          [] c = "#" -> Some(Glyph(4, 12, 0, 5))
          [] OTHER -> None]
Font3 ==
    [c \in FontChars |->
        CASE c = "A" -> Some(Glyph(10, 16, 1, 8))
          [] c = "B" -> Some(Glyph(25, 16, 0, 25))
          [] c = "C" -> Some(Glyph(6, 16, 2, 0))
          [] c = "#" -> Some(Glyph(4, 16, 0, 4))
          [] c = "M" -> Some(Glyph(16, 16, 0, 16))
          [] OTHER -> None]
Fonts == <<Font1, Font2, Font3>>

LineHeights == {None, Some(20)}
MaxWidths == {None, Some(25)}

\* font.get_char(c)
GetChar(font, c) == Fonts[font][c]

\* The line height get_string_size works with: the one given, else the height
\* of 'M', else 0.
LineHeight(arg, font) ==
    IF IsSome(arg) THEN Unwrap(arg)
    ELSE LET m == GetChar(font, "M")
         IN  IF IsSome(m) THEN Unwrap(m).height ELSE 0

\* A line is over, at a '#' or at a wrap: the height grows by a line, the
\* width becomes the widest line so far, the line starts anew.
CommitLine(t) ==
    [t EXCEPT !.height = @ + t.line_height,
              !.width = IF t.current_line_width > @ THEN t.current_line_width ELSE @,
              !.current_line_width = 0]

\* "Pretend there's a newline at the end"
FinalLine(t) ==
    [t EXCEPT !.height = @ + t.line_height,
              !.width = IF t.current_line_width > @ THEN t.current_line_width ELSE @]

\* Mutant: get_string_size never wraps a line.
GoesOver_Never(t, ch) == FALSE

\* "Check if we're going over the max width"
GoesOver(t, ch) ==
    /\ IsSome(t.max_width)
    /\ t.current_line_width + ch.width > Unwrap(t.max_width)
    /\ t.current_line_width # 0

\* Mutant: the line grows by the glyph's width.
ApplyChar_Width(t, ch) == [t EXCEPT !.current_line_width = @ + ch.width]

\* "Apply current character to line width"
ApplyChar(t, ch) == [t EXCEPT !.current_line_width = @ + ch.distance]

\* What is recorded of a glyph (observation only): the character it stands
\* for, the width of the line and the glyphs on it before the glyph, whether
\* a line was broken before it, the width of the line after it.
Check(at, ch, line_width, on_line, wrapped, after) ==
    [at |-> at, width |-> ch.width, distance |-> ch.distance,
     line_width |-> line_width, on_line |-> on_line, wrapped |-> wrapped,
     after |-> after]

\* A character that has a glyph: the wrap check, then the advance. lines,
\* wraps and breaks record the lines committed and the characters they were
\* committed at; glyphs, the characters that had a glyph; on_line, the
\* glyphs of the current line; checks, each glyph's Check (observation only).
MeasureGlyph(t, ch) ==
    LET l == IF GoesOver(t, ch)
             THEN [CommitLine(t) EXCEPT !.lines = Append(@, t.current_line_width),
                                        !.wraps = @ + 1,
                                        !.breaks = Append(@, t.at),
                                        !.on_line = 0]
             ELSE t
        a == ApplyChar(l, ch)
    IN  [a EXCEPT !.glyphs = Append(@, t.at),
                  !.on_line = @ + 1,
                  !.checks = Append(@, Check(t.at, ch, t.current_line_width, t.on_line,
                                             Len(l.breaks) > Len(t.breaks),
                                             a.current_line_width))]

\* The branches of the character loop: which one the character at pos takes.
AtNewline(t) == t.pos <= Len(t.string) /\ t.string[t.pos] = "#"
\* Mutant: a backslash never escapes.
AtEscape_Never(t) == FALSE

AtEscape(t) ==
    /\ t.pos < Len(t.string)
    /\ t.string[t.pos] = "\\"
    /\ t.string[t.pos + 1] = "#"
AtChar(t) == t.pos <= Len(t.string) /\ ~AtNewline(t) /\ ~AtEscape(t)
AtEnd(t) == t.pos > Len(t.string)

\* The character the branch looks up in the font, and the characters it
\* consumes.
Looked(t) == IF AtEscape(t) THEN "#" ELSE t.string[t.pos]
Consumed(t) == IF AtEscape(t) THEN 2 ELSE 1

\* Entry of get_string_size: the locals, and the line height.
MeasureStart(call) ==
    [op |-> "measure_loop",
     string |-> call.string,
     line_height_arg |-> call.line_height_arg,
     max_width |-> call.max_width,
     font |-> call.font,
     line_height |-> LineHeight(call.line_height_arg, call.font),
     pos |-> 1,
     at |-> 0,
     width |-> 0,
     height |-> 0,
     current_line_width |-> 0,
     lines |-> <<>>,
     wraps |-> 0,
     breaks |-> <<>>,
     glyphs |-> <<>>,
     on_line |-> 0,
     checks |-> <<>>]

\* '#': a new line, no glyph.
MeasureAtNewline(t) ==
    [CommitLine(t) EXCEPT !.pos = @ + 1,
                          !.lines = Append(@, t.current_line_width),
                          !.breaks = Append(@, t.pos),
                          !.on_line = 0]

\* '\#' or any other character: its glyph, or nothing when the font has none.
MeasureAtGlyph(t) ==
    LET ch == GetChar(t.font, Looked(t))
        n == [t EXCEPT !.pos = @ + Consumed(t), !.at = t.pos]
    IN  IF IsSome(ch) THEN MeasureGlyph(n, Unwrap(ch)) ELSE n

\* After the last character: the last line, and (width, height) is returned.
MeasureAtEnd(t) ==
    [FinalLine(t) EXCEPT !.op = "measure_done",
                         !.lines = Append(@, t.current_line_width)]

\* get_string_size run from a state of its loop to its return.
RECURSIVE MeasureRun(_)
MeasureRun(t) ==
    IF AtEnd(t) THEN MeasureAtEnd(t)
    ELSE IF AtNewline(t) THEN MeasureRun(MeasureAtNewline(t))
    ELSE MeasureRun(MeasureAtGlyph(t))

\* self.get_string_size(string, line_height, max_width), as a function.
GetStringSize(string, lh, mw, f) ==
    MeasureRun(MeasureStart([string |-> string, line_height_arg |-> lh,
                             max_width |-> mw, font |-> f]))

\* No call of get_string_size is under way.
TextIdle == [op |-> "none"]

\* A call get_string_size(string, line_height, max_width) with draw_font f.
TextCall(string, lh, mw, f) ==
    [op |-> "measure", string |-> string, line_height_arg |-> lh,
     max_width |-> mw, font |-> f]

-----------------------------------------------------------------------------
(* Initial states: a loaded room, before the first call of Game::draw.     *)

HistInit ==
    [pass |-> 0,              \* draw_view passes begun in this frame
     mutated |-> FALSE,       \* a DRAW event changed a list during this pass
     mutations |-> 0,         \* list changes DRAW events have made so far
     drawn |-> <<>>,          \* the draw_instance / draw_tile calls of the frame
     inserted |-> {},         \* the elements DRAW events inserted in this frame
     err_len |-> None,        \* renderer calls made when a DRAW event failed
     events |-> <<>>,         \* the run_instance_event calls of the frame
     read_removed |-> FALSE]  \* an element that no longer exists was read

InitGame(ve, vs, ls, il, tl) ==
    /\ pc = "idle"
    /\ frame = 1
    /\ result = "none"
    /\ views_enabled = ve
    /\ views = vs
    /\ view_current = 0
    /\ count = 0
    /\ backgrounds = ls
    /\ instance_list = il
    /\ inst_order = DrawSortOrder(il)
    /\ tile_list = tl
    /\ tile_order = DrawSortOrder(tl)
    /\ iter_inst = 0
    /\ iter_inst_v = None
    /\ iter_tile = 0
    /\ iter_tile_v = None
    /\ renderer = <<>>
    /\ frame_open = FALSE
    /\ presses = TRUE
    /\ hist = HistInit

Views == [visible : BOOLEAN]
LayerKinds == {Layer(bg, vis, fg) : bg \in 0..2, vis \in BOOLEAN, fg \in BOOLEAN}

\* Rooms of default-drawn instances and tiles of every depth.
InitDepthOrder ==
    \E il \in SeqsUpTo(MaxInst, {Some(Plain(d)) : d \in Depths}),
       tl \in SeqsUpTo(MaxTile, {Some(Tile(0, d)) : d \in TileDepths}) :
        InitGame(FALSE, <<>>, <<>>, il, tl)

\* Rooms with every combination of background layers.
InitLayers ==
    \E ls \in SeqsUpTo(MaxLayers, LayerKinds) :
        InitGame(FALSE, <<>>, ls, <<Some(Plain(5))>>, <<Some(Tile(0, 5))>>)

\* Rooms whose instances and tiles name present, empty and missing assets.
InitAssets ==
    \E il \in SeqsUpTo(MaxScripted, {Some(Instance(0, spr, 0, 5)) : spr \in (0 - 1)..2}),
       tl \in SeqsUpTo(MaxScripted, {Some(Tile(bg, 5)) : bg \in 0..2}) :
        InitGame(FALSE, <<>>, <<>>, il, tl)

\* Rooms with views, one scripted instance, one tile and a foreground.
InitViews ==
    \E vs \in SeqsUpTo(MaxViews, Views) :
        InitGame(TRUE, vs, <<Layer(0, TRUE, TRUE)>>,
                 <<Some(Scripted(5))>>, <<Some(Tile(0, 5))>>)

\* The tiles of the rooms with scripted instances.
ScriptedTiles ==
    {<<>>, <<Some(Tile(0, 5))>>, <<Some(Tile(0, 7))>>,
     <<Some(Tile(0, 7)), Some(Tile(0, 5))>>}

\* Rooms with scripted instances among plain ones and tiles.
InitScripted ==
    \E il \in SeqsUpTo(MaxScripted, {Some(Scripted(10)), Some(Plain(5))}),
       tl \in ScriptedTiles :
        InitGame(FALSE, <<>>, <<Layer(0, TRUE, TRUE)>>, il, tl)

\* The image_index values of the rooms of one instance, in halves.
ImageIndexes == {0 - 3, 0 - 2, 0 - 1, 0, 1, 3, 4, 5}

\* Rooms of one instance, of an object with or without a DRAW event, with a
\* sprite of two frames, of none or without a sprite, at every image_index.
InitFrames ==
    \E obj \in 0..1, spr \in (0 - 1)..1, img \in ImageIndexes :
        InitGame(FALSE, <<>>, <<>>, <<Some(Instance(obj, spr, img, 5))>>, <<>>)

InitRoom ==
    \/ InitDepthOrder \/ InitLayers \/ InitAssets \/ InitViews \/ InitScripted
    \/ InitFrames

\* No operation on Real values is under way.
RealIdle == [op |-> "none"]

Init == InitRoom /\ text = TextIdle /\ real = RealIdle

\* A call of get_string_size, for every short string over Chars.
InitText ==
    /\ InitGame(FALSE, <<>>, <<>>, <<>>, <<>>)
    /\ real = RealIdle
    /\ \E string \in SeqsUpTo(MaxLen, Chars), lh \in LineHeights, mw \in MaxWidths,
          f \in 1..Len(Fonts) :
            text = TextCall(string, lh, mw, f)

-----------------------------------------------------------------------------
(* Fragments shared by the actions.                                        *)

config == <<views_enabled, views, backgrounds>>
lists == <<instance_list, tile_list>>
orders == <<inst_order, tile_order>>
iters == <<iter_inst, iter_inst_v, iter_tile, iter_tile_v>>

\* Renderer calls other than finish: the frame now holds submissions.
Submit(calls) ==
    /\ renderer' = renderer \o calls
    /\ frame_open' = (frame_open \/ calls # <<>>)

\* list.get(idx).unwrap_or_else(|| unreachable_unchecked()): the element, or,
\* when it no longer exists, undefined behaviour: whatever the slot's memory
\* holds (the process may also crash, see Crash).
GarbageInstances == {Plain(d) : d \in Depths}
GarbageTiles == {Tile(0, d) : d \in Depths}
Reads(list, idx, garbage) ==
    IF Present(list, idx) THEN {Unwrap(list[idx])} ELSE garbage

Drawn(kind, idx, depth) ==
    [kind |-> kind, idx |-> idx, depth |-> depth, pass |-> hist.pass]

\* The `?` after draw_instance and after draw_view: an Err is returned to the
\* caller at once.
Propagates(out) == out = "err"

\* game.run_instance_event(gml::ev::DRAW, 0, idx, idx, None): the DRAW event
\* of instance idx. The script may fail and may change any game state
\* (spec.md 5): here, remove or insert an instance or a tile.
RunDrawEvent(idx, h, out) ==
    \/ /\ out = "ok"
       /\ Submit(<<>>)
       /\ hist' = h
       /\ UNCHANGED lists
    \/ /\ out = "err"
       /\ Submit(<<>>)
       /\ hist' = [h EXCEPT !.err_len = Some(Len(renderer))]
       /\ UNCHANGED lists
    \/ /\ out = "ok"
       /\ h.mutations < MaxMutations
       /\ \E i \in 1..Len(instance_list) :
            /\ Present(instance_list, i)
            /\ instance_list' = ListRemove(instance_list, i)
       /\ Submit(<<>>)
       /\ hist' = [h EXCEPT !.mutated = TRUE, !.mutations = @ + 1]
       /\ UNCHANGED tile_list
    \/ /\ out = "ok"
       /\ h.mutations < MaxMutations
       /\ \E i \in 1..Len(tile_list) :
            /\ Present(tile_list, i)
            /\ tile_list' = ListRemove(tile_list, i)
       /\ Submit(<<>>)
       /\ hist' = [h EXCEPT !.mutated = TRUE, !.mutations = @ + 1]
       /\ UNCHANGED instance_list
    \/ /\ out = "ok"
       /\ h.mutations < MaxMutations
       /\ \E d \in InsertDepths : instance_list' = ListInsert(instance_list, Plain(d))
       /\ Submit(<<>>)
       /\ hist' = [h EXCEPT !.mutated = TRUE, !.mutations = @ + 1,
                            !.inserted = @ \cup {[kind |-> "instance",
                                                  idx |-> Len(instance_list) + 1,
                                                  pass |-> h.pass]}]
       /\ UNCHANGED tile_list
    \/ /\ out = "ok"
       /\ h.mutations < MaxMutations
       /\ \E d \in InsertDepths : tile_list' = ListInsert(tile_list, Tile(0, d))
       /\ Submit(<<>>)
       /\ hist' = [h EXCEPT !.mutated = TRUE, !.mutations = @ + 1,
                            !.inserted = @ \cup {[kind |-> "tile",
                                                  idx |-> Len(tile_list) + 1,
                                                  pass |-> h.pass]}]
       /\ UNCHANGED instance_list

\* game.run_instance_event(gml::ev::DRAW, 0, idx, idx, None), as recorded.
DrawEventCall(idx) ==
    [event |-> "DRAW", sub |-> 0, this |-> idx, other |-> idx, pass |-> hist.pass]

\* fn draw_instance(game, idx) -> gml::Result<()>. out is "ok", "err" or
\* "panic".
DrawInstance(idx, out) ==
    \E inst \in Reads(instance_list, idx, GarbageInstances) :
        LET h == [hist EXCEPT !.drawn = Append(@, Drawn("instance", idx, inst.depth)),
                              !.read_removed = @ \/ ~Present(instance_list, idx)]
        IN  IF IsCustomDraw(inst)
            THEN RunDrawEvent(idx, [h EXCEPT !.events = Append(@, DrawEventCall(idx))], out)
            ELSE LET d == DefaultDraw(inst)
                 IN  /\ out = (IF d.kind = "panic" THEN "panic" ELSE "ok")
                     /\ Submit(IF d.kind = "draw"
                               THEN <<DrawSpriteCall("instance", idx, d.atlas)>>
                               ELSE <<>>)
                     /\ hist' = h
                     /\ UNCHANGED lists

\* fn draw_tile(game, idx)
DrawTile(idx) ==
    \E tile \in Reads(tile_list, idx, GarbageTiles) :
        LET atlas == TileAtlas(tile)
        IN  /\ Submit(IF IsSome(atlas)
                      THEN <<DrawPartialCall("tile", idx, Unwrap(atlas))>>
                      ELSE <<>>)
            /\ hist' = [hist EXCEPT !.drawn = Append(@, Drawn("tile", idx, tile.depth)),
                                    !.read_removed = @ \/ ~Present(tile_list, idx)]
            /\ UNCHANGED lists

\* Mutant: the draw order is rebuilt after every draw_instance call.
OrderAfterDispatch_Resort(order, list) == DrawSortOrder(list)

\* The cached draw order after a draw_instance call has returned: the merge
\* loop goes on to iter.next() without another draw_sort.
OrderAfterDispatch(order, list) == order

\* What follows a draw_instance call that did not return Ok: a panic unwinds
\* out of Game::draw, an Err is returned through draw_view and Game::draw.
Leave(out) ==
    /\ pc' = (IF out = "panic" THEN "panicked" ELSE "returned")
    /\ result' = (IF out = "panic" THEN result ELSE "err")

Stops(out) == out = "panic" \/ Propagates(out)

\* Entry of draw_view: renderer.set_view for view v (-1: the whole room). The
\* call records the view_current scripts observe during the pass.
EnterDrawView(v) ==
    /\ Submit(<<SetViewCall(v, view_current')>>)
    /\ hist' = [hist EXCEPT !.pass = @ + 1, !.mutated = FALSE]
    /\ pc' = "backgrounds"

-----------------------------------------------------------------------------
(* Game::draw.                                                             *)

\* draw(), views enabled: enter the loop over the views.
DrawViews ==
    /\ UNCHANGED <<text, real>>
    /\ pc = "idle"
    /\ views_enabled
    /\ count' = 0
    /\ pc' = "views"
    /\ UNCHANGED <<frame, result, config, view_current, lists, orders, iters,
                   renderer, frame_open, presses, hist>>

\* draw(), views disabled: one pass over the whole room.
DrawRoom ==
    /\ UNCHANGED <<text, real>>
    /\ pc = "idle"
    /\ ~views_enabled
    /\ UNCHANGED view_current
    /\ EnterDrawView(0 - 1)
    /\ UNCHANGED <<frame, result, config, count, lists, orders, iters, presses>>

\* The loop over the views, a visible view: set view_current, call draw_view.
ViewPass ==
    /\ UNCHANGED <<text, real>>
    /\ pc = "views"
    /\ count < Len(views)
    /\ ViewDrawn(views[count + 1])
    /\ view_current' = count
    /\ EnterDrawView(count)
    /\ UNCHANGED <<frame, result, config, count, lists, orders, iters, presses>>

\* The loop over the views, an invisible view.
ViewSkip ==
    /\ UNCHANGED <<text, real>>
    /\ pc = "views"
    /\ count < Len(views)
    /\ ~ViewDrawn(views[count + 1])
    /\ count' = count + 1
    /\ UNCHANGED <<pc, frame, result, config, view_current, lists, orders, iters,
                   renderer, frame_open, presses, hist>>

\* The loop over the views is over.
ViewsEnd ==
    /\ UNCHANGED <<text, real>>
    /\ pc = "views"
    /\ count >= Len(views)
    /\ view_current' = 0
    /\ pc' = "finish"
    /\ UNCHANGED <<frame, result, config, count, lists, orders, iters, renderer,
                   frame_open, presses, hist, text>>

\* renderer.finish, input_manager.clear_presses, Ok(()).
Finish ==
    /\ UNCHANGED <<text, real>>
    /\ pc = "finish"
    /\ renderer' = Append(renderer, FinishCall)
    /\ frame_open' = FALSE
    /\ presses' = FALSE
    /\ result' = "ok"
    /\ pc' = "returned"
    /\ UNCHANGED <<frame, config, view_current, count, lists, orders, iters, hist>>

\* The game loop calls Game::draw again; input arrived in between.
NextFrame ==
    /\ UNCHANGED <<text, real>>
    /\ pc = "returned"
    /\ frame < MaxFrames
    /\ frame' = frame + 1
    /\ pc' = "idle"
    /\ result' = "none"
    /\ count' = 0
    /\ iter_inst' = 0 /\ iter_inst_v' = None
    /\ iter_tile' = 0 /\ iter_tile_v' = None
    /\ renderer' = <<>>
    /\ presses' = TRUE
    /\ hist' = [HistInit EXCEPT !.mutations = hist.mutations]
    /\ UNCHANGED <<config, view_current, lists, orders, frame_open>>

-----------------------------------------------------------------------------
(* Game::draw_view.                                                        *)

\* The loop "draw backgrounds".
DrawBackgrounds ==
    /\ UNCHANGED <<text, real>>
    /\ pc = "backgrounds"
    /\ Submit(LayerCalls(backgrounds, 1, "background"))
    /\ pc' = "sort"
    /\ UNCHANGED <<frame, result, config, view_current, count, lists, orders,
                   iters, presses, hist>>

\* draw_sort and iter_by_drawing of both lists, and the first next() of each.
DrawSort ==
    /\ UNCHANGED <<text, real>>
    /\ pc = "sort"
    /\ inst_order' = DrawSortOrder(instance_list)
    /\ tile_order' = DrawSortOrder(tile_list)
    /\ LET i == IterNext(inst_order', 0, instance_list)
           t == IterNext(tile_order', 0, tile_list)
       IN  /\ iter_inst' = i.pos /\ iter_inst_v' = i.v
           /\ iter_tile' = t.pos /\ iter_tile_v' = t.v
    /\ pc' = "merge"
    /\ UNCHANGED <<frame, result, config, view_current, count, lists, renderer,
                   frame_open, presses, hist, text>>

\* match (Some(idx_inst), Some(idx_tile)): both elements are read and their
\* depths compared.
MergeBoth ==
    /\ UNCHANGED <<text, real>>
    /\ pc = "merge"
    /\ IsSome(iter_inst_v) /\ IsSome(iter_tile_v)
    /\ \E inst \in Reads(instance_list, Unwrap(iter_inst_v), GarbageInstances),
          tile \in Reads(tile_list, Unwrap(iter_tile_v), GarbageTiles) :
            pc' = (IF InstanceFirst(inst.depth, tile.depth)
                   THEN "inst_both" ELSE "tile_both")
    /\ hist' = [hist EXCEPT !.read_removed =
                    \/ @
                    \/ ~Present(instance_list, Unwrap(iter_inst_v))
                    \/ ~Present(tile_list, Unwrap(iter_tile_v))]
    /\ UNCHANGED <<frame, result, config, view_current, count, lists, orders,
                   iters, renderer, frame_open, presses>>

\* match (Some(idx_inst), None)
MergeInstOnly ==
    /\ UNCHANGED <<text, real>>
    /\ pc = "merge"
    /\ IsSome(iter_inst_v) /\ ~IsSome(iter_tile_v)
    /\ pc' = "inst_only"
    /\ UNCHANGED <<frame, result, config, view_current, count, lists, orders,
                   iters, renderer, frame_open, presses, hist>>

\* match (None, Some(idx_tile))
MergeTileOnly ==
    /\ UNCHANGED <<text, real>>
    /\ pc = "merge"
    /\ ~IsSome(iter_inst_v) /\ IsSome(iter_tile_v)
    /\ pc' = "tile_only"
    /\ UNCHANGED <<frame, result, config, view_current, count, lists, orders,
                   iters, renderer, frame_open, presses, hist>>

\* match (None, None) => break
MergeNone ==
    /\ UNCHANGED <<text, real>>
    /\ pc = "merge"
    /\ ~IsSome(iter_inst_v) /\ ~IsSome(iter_tile_v)
    /\ pc' = "foregrounds"
    /\ UNCHANGED <<frame, result, config, view_current, count, lists, orders,
                   iters, renderer, frame_open, presses, hist>>

\* Greater | Equal: draw_instance(self, idx_inst)?; iter_inst_v = next.
DrawInstBoth ==
    /\ UNCHANGED <<text, real>>
    /\ pc = "inst_both"
    /\ \E out \in {"ok", "err", "panic"} :
        /\ DrawInstance(Unwrap(iter_inst_v), out)
        /\ inst_order' = OrderAfterDispatch(inst_order, instance_list')
        /\ tile_order' = OrderAfterDispatch(tile_order, tile_list')
        /\ IF Stops(out)
           THEN Leave(out) /\ UNCHANGED <<iter_inst, iter_inst_v>>
           ELSE LET n == IterNext(inst_order', iter_inst, instance_list')
                IN  /\ iter_inst' = n.pos
                    /\ iter_inst_v' = n.v
                    /\ pc' = "merge"
                    /\ UNCHANGED result
    /\ UNCHANGED <<frame, config, view_current, count, iter_tile, iter_tile_v,
                   presses>>

\* Less: draw_tile(self, idx_tile); iter_tile_v = next.
DrawTileBoth ==
    /\ UNCHANGED <<text, real>>
    /\ pc = "tile_both"
    /\ DrawTile(Unwrap(iter_tile_v))
    /\ LET n == IterNext(tile_order, iter_tile, tile_list)
       IN  /\ iter_tile' = n.pos
           /\ iter_tile_v' = n.v
    /\ pc' = "merge"
    /\ UNCHANGED <<frame, result, config, view_current, count, orders, iter_inst,
                   iter_inst_v, presses>>

\* (Some(idx_inst), None): draw_instance(self, idx_inst)?, then the inner loop.
DrawInstOnly ==
    /\ UNCHANGED <<text, real>>
    /\ pc = "inst_only"
    /\ \E out \in {"ok", "err", "panic"} :
        /\ DrawInstance(Unwrap(iter_inst_v), out)
        /\ inst_order' = OrderAfterDispatch(inst_order, instance_list')
        /\ tile_order' = OrderAfterDispatch(tile_order, tile_list')
        /\ IF Stops(out)
           THEN Leave(out)
           ELSE pc' = "drain_inst" /\ UNCHANGED result
    /\ UNCHANGED <<frame, config, view_current, count, iters, presses>>

\* while let Some(idx_inst) = iter_inst.next(..) { draw_instance(..)?; }
DrainInst ==
    /\ UNCHANGED <<text, real>>
    /\ pc = "drain_inst"
    /\ LET n == IterNext(inst_order, iter_inst, instance_list)
       IN  /\ IsSome(n.v)
           /\ iter_inst' = n.pos
           /\ \E out \in {"ok", "err", "panic"} :
                /\ DrawInstance(Unwrap(n.v), out)
                /\ inst_order' = OrderAfterDispatch(inst_order, instance_list')
                /\ tile_order' = OrderAfterDispatch(tile_order, tile_list')
                /\ IF Stops(out) THEN Leave(out) ELSE UNCHANGED <<pc, result>>
    /\ UNCHANGED <<frame, config, view_current, count, iter_inst_v, iter_tile,
                   iter_tile_v, presses>>

\* The inner loop over the instances ends: break.
DrainInstEnd ==
    /\ UNCHANGED <<text, real>>
    /\ pc = "drain_inst"
    /\ LET n == IterNext(inst_order, iter_inst, instance_list)
       IN  /\ ~IsSome(n.v)
           /\ iter_inst' = n.pos
    /\ pc' = "foregrounds"
    /\ UNCHANGED <<frame, result, config, view_current, count, lists, orders,
                   iter_inst_v, iter_tile, iter_tile_v, renderer, frame_open,
                   presses, hist>>

\* (None, Some(idx_tile)): draw_tile(self, idx_tile), then the inner loop.
DrawTileOnly ==
    /\ UNCHANGED <<text, real>>
    /\ pc = "tile_only"
    /\ DrawTile(Unwrap(iter_tile_v))
    /\ pc' = "drain_tile"
    /\ UNCHANGED <<frame, result, config, view_current, count, orders, iters,
                   presses>>

\* while let Some(idx_tile) = iter_tile.next(..) { draw_tile(..); }
DrainTile ==
    /\ UNCHANGED <<text, real>>
    /\ pc = "drain_tile"
    /\ LET n == IterNext(tile_order, iter_tile, tile_list)
       IN  /\ IsSome(n.v)
           /\ iter_tile' = n.pos
           /\ DrawTile(Unwrap(n.v))
    /\ UNCHANGED <<pc, frame, result, config, view_current, count, orders,
                   iter_inst, iter_inst_v, iter_tile_v, presses>>

\* The inner loop over the tiles ends: break.
DrainTileEnd ==
    /\ UNCHANGED <<text, real>>
    /\ pc = "drain_tile"
    /\ LET n == IterNext(tile_order, iter_tile, tile_list)
       IN  /\ ~IsSome(n.v)
           /\ iter_tile' = n.pos
    /\ pc' = "foregrounds"
    /\ UNCHANGED <<frame, result, config, view_current, count, lists, orders,
                   iter_inst, iter_inst_v, iter_tile_v, renderer, frame_open,
                   presses, hist>>

\* The loop "draw foregrounds" and Ok(()): back in Game::draw, after the call.
DrawForegrounds ==
    /\ UNCHANGED <<text, real>>
    /\ pc = "foregrounds"
    /\ Submit(LayerCalls(backgrounds, 1, "foreground"))
    /\ IF views_enabled
       THEN count' = count + 1 /\ pc' = "views"
       ELSE count' = count /\ pc' = "finish"
    /\ UNCHANGED <<frame, result, config, view_current, lists, orders, iters,
                   presses, hist>>

\* A read of an element that no longer exists is undefined behaviour: the
\* process may also die there.
StaleRead ==
    \/ /\ pc = "merge" /\ IsSome(iter_inst_v) /\ IsSome(iter_tile_v)
       /\ \/ ~Present(instance_list, Unwrap(iter_inst_v))
          \/ ~Present(tile_list, Unwrap(iter_tile_v))
    \/ /\ pc \in {"inst_both", "inst_only"}
       /\ ~Present(instance_list, Unwrap(iter_inst_v))
    \/ /\ pc \in {"tile_both", "tile_only"}
       /\ ~Present(tile_list, Unwrap(iter_tile_v))

Crash ==
    /\ UNCHANGED <<text, real>>
    /\ StaleRead
    /\ pc' = "crashed"
    /\ hist' = [hist EXCEPT !.read_removed = TRUE]
    /\ UNCHANGED <<frame, result, config, view_current, count, lists, orders,
                   iters, renderer, frame_open, presses>>

Next ==
    \/ DrawViews \/ DrawRoom \/ ViewPass \/ ViewSkip \/ ViewsEnd \/ Finish
    \/ NextFrame \/ DrawBackgrounds \/ DrawSort
    \/ MergeBoth \/ MergeInstOnly \/ MergeTileOnly \/ MergeNone
    \/ DrawInstBoth \/ DrawTileBoth \/ DrawInstOnly \/ DrainInst \/ DrainInstEnd
    \/ DrawTileOnly \/ DrainTile \/ DrainTileEnd \/ DrawForegrounds \/ Crash

Spec == Init /\ [][Next]_vars

-----------------------------------------------------------------------------
(* Game::get_string_size, one action per iteration of its loop.            *)

game == <<pc, frame, result, views_enabled, views, view_current, count,
          backgrounds, instance_list, inst_order, tile_list, tile_order,
          iter_inst, iter_inst_v, iter_tile, iter_tile_v, renderer,
          frame_open, presses, hist>>

\* Entry: the locals, and the line height.
MeasureEnter ==
    /\ text.op = "measure"
    /\ text' = MeasureStart(text)
    /\ UNCHANGED <<game, real>>

\* '#': a new line, no glyph.
MeasureNewline ==
    /\ text.op = "measure_loop"
    /\ AtNewline(text)
    /\ text' = MeasureAtNewline(text)
    /\ UNCHANGED <<game, real>>

\* '\' with '#' next: both are consumed, the glyph is that of '#'.
MeasureEscape ==
    /\ text.op = "measure_loop"
    /\ AtEscape(text)
    /\ text' = MeasureAtGlyph(text)
    /\ UNCHANGED <<game, real>>

\* Any other character: its glyph, or nothing when the font has none.
MeasureChar ==
    /\ text.op = "measure_loop"
    /\ AtChar(text)
    /\ text' = MeasureAtGlyph(text)
    /\ UNCHANGED <<game, real>>

\* After the last character: the last line, and (width, height) is returned.
MeasureEnd ==
    /\ text.op = "measure_loop"
    /\ AtEnd(text)
    /\ text' = MeasureAtEnd(text)
    /\ UNCHANGED <<game, real>>

NextText ==
    MeasureEnter \/ MeasureNewline \/ MeasureEscape \/ MeasureChar \/ MeasureEnd

SpecText == InitText /\ [][NextText]_vars

-----------------------------------------------------------------------------
(* Observations of a frame, used to state the properties below.            *)

InPass ==
    pc \in {"backgrounds", "sort", "merge", "inst_both", "tile_both", "inst_only",
            "tile_only", "drain_inst", "drain_tile", "foregrounds"}

\* The draw_instance / draw_tile calls of the pass that runs or ran last.
PassDrawn == SelectSeq(hist.drawn, LAMBDA d : d.pass = hist.pass)

\* The renderer calls made for the scene body.
BodyCalls == SelectSeq(renderer, LAMBDA c : c.src \in {"instance", "tile"})

\* The renderer calls of the pass that runs or ran last: from its set_view.
LastSetView ==
    LET S == {i \in 1..Len(renderer) : renderer[i].op = "set_view"}
    IN  IF S = {} THEN 0 ELSE CHOOSE i \in S : \A j \in S : j <= i
PassCalls ==
    IF LastSetView = 0 THEN <<>>
    ELSE SelectSeq(SubSeq(renderer, LastSetView, Len(renderer)),
                   LAMBDA c : c.op # "finish")

PhaseRank(c) ==
    CASE c.op = "set_view" -> 0
      [] c.src = "background" -> 1
      [] c.src \in {"instance", "tile"} -> 2
      [] c.src = "foreground" -> 3
      [] OTHER -> 4

\* The last pass has left its background loop / has returned Ok.
BackgroundsDone == LastSetView > 0 /\ pc # "backgrounds"
PassDone ==
    /\ LastSetView > 0
    /\ pc \in {"views", "finish"} \/ (pc = "returned" /\ result = "ok")

LayerDrawn(phase, l) ==
    \E k \in 1..Len(PassCalls) : PassCalls[k].src = phase /\ PassCalls[k].id = l

SetViewCalls == SelectSeq(renderer, LAMBDA c : c.op = "set_view")
VisibleViews == {v \in 0..(Len(views) - 1) : views[v + 1].visible}

ExampleInstances == <<Some(Plain(10)), Some(Plain(5)), Some(Plain(5))>>
ExampleTiles == <<Some(Tile(0, 7)), Some(Tile(0, 5))>>
ExampleViews == <<[visible |-> TRUE], [visible |-> FALSE], [visible |-> TRUE]>>

-----------------------------------------------------------------------------
(* C1: in a pass during which no DRAW event changed a list, the elements   *)
(* are drawn in painter's order: along the sequence of draw_instance and   *)
(* draw_tile calls the depth never increases, and of an instance and a     *)
(* tile of equal depth the instance comes first. The room I1(10), I2(5),   *)
(* I3(5), T1(7), T2(5) reaches the renderer as I1, T1, I2, I3, T2.         *)
C1_PaintersOrder ==
    ~hist.mutated =>
        /\ \A i, j \in 1..Len(PassDrawn) :
            i < j =>
                /\ PassDrawn[i].depth >= PassDrawn[j].depth
                /\ ~(/\ PassDrawn[i].depth = PassDrawn[j].depth
                     /\ PassDrawn[i].kind = "tile"
                     /\ PassDrawn[j].kind = "instance")
        /\ (instance_list = ExampleInstances /\ tile_list = ExampleTiles /\ pc = "finish") =>
            [k \in 1..Len(BodyCalls) |-> <<BodyCalls[k].src, BodyCalls[k].id>>]
                = << <<"instance", 1>>, <<"tile", 1>>, <<"instance", 2>>,
                     <<"instance", 3>>, <<"tile", 2>> >>

C1_Witness ==
    /\ instance_list = ExampleInstances
    /\ tile_list = ExampleTiles
    /\ pc = "finish"
    /\ Len(BodyCalls) = 5

(* C2: the renderer calls of a pass come in the order set_view, background *)
(* layers, scene body, foreground layers. The background calls are made    *)
(* for visible non-foreground layers, the foreground calls for visible     *)
(* foreground layers, each in layer order; once the respective loop is     *)
(* over every such layer whose background has an atlas has been drawn; no  *)
(* invisible layer is drawn and no layer is drawn in both phases.          *)
C2_PassOrder ==
    /\ renderer # <<>> => renderer[1].op \in {"set_view", "finish"}
    /\ \A i, j \in 1..Len(PassCalls) :
        i < j =>
            /\ PhaseRank(PassCalls[i]) <= PhaseRank(PassCalls[j])
            /\ PassCalls[j].op # "set_view"
            /\ (PassCalls[i].src = PassCalls[j].src
                    /\ PassCalls[i].src \in {"background", "foreground"})
                => PassCalls[i].id < PassCalls[j].id
            /\ (PassCalls[i].src = "background" /\ PassCalls[j].src = "foreground")
                => PassCalls[i].id # PassCalls[j].id
    /\ \A k \in 1..Len(PassCalls) :
        LET c == PassCalls[k]
        IN  /\ c.src = "background" =>
                backgrounds[c.id].visible /\ ~backgrounds[c.id].is_foreground
            /\ c.src = "foreground" =>
                backgrounds[c.id].visible /\ backgrounds[c.id].is_foreground
    /\ \A l \in 1..Len(backgrounds) :
        LET layer == backgrounds[l]
            has_atlas == IsSome(BackgroundAtlas(layer.background_id))
        IN  /\ (BackgroundsDone /\ layer.visible /\ ~layer.is_foreground /\ has_atlas)
                => LayerDrawn("background", l)
            /\ (PassDone /\ layer.visible /\ layer.is_foreground /\ has_atlas)
                => LayerDrawn("foreground", l)

C2_Witness ==
    /\ PassDone
    /\ \E i, j, k \in 1..Len(PassCalls) :
        /\ PassCalls[i].src = "background"
        /\ PassCalls[j].src \in {"instance", "tile"}
        /\ PassCalls[k].src = "foreground"

(* C3: with views enabled, set_view is called once for each visible view   *)
(* and for no invisible one, by increasing index; during the pass of view  *)
(* i view_current is i; after the loop view_current is 0. With the views   *)
(* [visible, invisible, visible] set_view is called twice, with            *)
(* view_current 0 and then 2.                                              *)
C3_ViewLoop ==
    views_enabled =>
        /\ \A k \in 1..Len(SetViewCalls) :
            /\ SetViewCalls[k].id \in VisibleViews
            /\ SetViewCalls[k].arg = <<SetViewCalls[k].id>>
        /\ \A i, j \in 1..Len(SetViewCalls) :
            i < j => SetViewCalls[i].id < SetViewCalls[j].id
        /\ InPass =>
            /\ SetViewCalls # <<>>
            /\ view_current = SetViewCalls[Len(SetViewCalls)].id
            /\ view_current = count
        /\ (pc = "finish" \/ (pc = "returned" /\ result = "ok")) =>
            /\ view_current = 0
            /\ {SetViewCalls[k].id : k \in 1..Len(SetViewCalls)} = VisibleViews
        /\ (views = ExampleViews /\ pc = "finish") =>
            [k \in 1..Len(SetViewCalls) |-> SetViewCalls[k].arg] = << <<0>>, <<2>> >>

C3_Witness ==
    /\ views_enabled
    /\ views = ExampleViews
    /\ pc = "finish"
    /\ Len(SetViewCalls) = 2

(* C4: when Game::draw has returned, renderer.finish has been called       *)
(* exactly once in that frame, as the last renderer call.                  *)
C4_FinishOncePerFrame ==
    pc = "returned" =>
        /\ Cardinality({k \in 1..Len(renderer) : renderer[k].op = "finish"}) = 1
        /\ renderer[Len(renderer)].op = "finish"

(* C5: when a DRAW event fails, the pass stops at that instance: nothing   *)
(* more reaches the renderer in that frame and Game::draw has returned the *)
(* error; and no other step of the pass fails: Game::draw ends with an     *)
(* error or a panic only when a DRAW event failed.                         *)
C5_ErrorAborts ==
    /\ IsSome(hist.err_len) =>
        /\ pc = "returned"
        /\ result = "err"
        /\ Len(renderer) = Unwrap(hist.err_len)
        /\ hist.drawn[Len(hist.drawn)].kind = "instance"
    /\ result = "err" => IsSome(hist.err_len)
    /\ pc = "panicked" => IsSome(hist.err_len)

(* C6: after Game::draw has returned an error the per-frame state is that  *)
(* of a frame that succeeded: view_current is 0, the frame was closed by   *)
(* renderer.finish and the press buffer was cleared.                       *)
C6_CleanAfterError ==
    (pc = "returned" /\ result = "err") =>
        /\ view_current = 0
        /\ ~frame_open
        /\ ~presses

(* C7: an asset miss (a sprite without frames, an unassigned sprite, a     *)
(* background that is missing or has no atlas) never stops the pass.       *)
C7_SilentMisses == pc # "panicked"

(* C8: the pass never reads an instance or a tile that was removed.        *)
C8_NoStaleRead == ~hist.read_removed

-----------------------------------------------------------------------------
(* Game::draw_string.                                                      *)

Haligns == {"Left", "Middle", "Right"}
Valigns == {"Top", "Middle", "Bottom"}

\* The point strings are drawn at.
Anchor == [x |-> 100, y |-> 50]

\* A call draw_string(x, y, string, line_height, max_width) with draw_font f
\* and the alignment (draw_halign, draw_valign).
DrawCall(string, lh, mw, f, h, v) ==
    [op |-> "draw", string |-> string, line_height_arg |-> lh, max_width |-> mw,
     font |-> f, halign |-> h, valign |-> v, x |-> Anchor.x, y |-> Anchor.y]

\* Calls of draw_string for every short string over Chars: with every line
\* height, width and font and the alignment that measures nothing,
InitDrawLayout ==
    \E string \in SeqsUpTo(MaxLen, Chars), lh \in LineHeights, mw \in MaxWidths,
       f \in 1..Len(Fonts) :
        text = DrawCall(string, lh, mw, f, "Left", "Top")

\* and with every other alignment, a line height and a width.
InitDrawAligned ==
    \E string \in SeqsUpTo(MaxLen, Chars), f \in 1..Len(Fonts),
       h \in Haligns, v \in Valigns :
        /\ ~(h = "Left" /\ v = "Top")
        /\ text = DrawCall(string, Some(20), Some(25), f, h, v)

InitDraw ==
    /\ InitGame(FALSE, <<>>, <<>>, <<>>, <<>>)
    /\ real = RealIdle
    /\ (InitDrawLayout \/ InitDrawAligned)

\* Mutant: the string is measured with the caller's line height and width.
AlignSize_AsDrawn(call) ==
    GetStringSize(call.string, call.line_height_arg, call.max_width, call.font)

\* self.get_string_size(string, None, None)
AlignSize(call) == GetStringSize(call.string, None, None, call.font)

\* Whether the alignment needs the size of the string.
Measures(call) == ~(call.halign = "Left" /\ call.valign = "Top")

\* "Figure out where the cursor should start based on our font align
\* variables."
StartCursor(call) ==
    IF ~Measures(call) THEN [x |-> call.x, y |-> call.y]
    ELSE LET size == AlignSize(call)
         IN  [x |-> CASE call.halign = "Left" -> call.x
                      [] call.halign = "Middle" -> call.x - (size.width \div 2)
                      [] call.halign = "Right" -> call.x - size.width,
              y |-> CASE call.valign = "Top" -> call.y
                      [] call.valign = "Middle" -> call.y - (size.height \div 2)
                      [] call.valign = "Bottom" -> call.y - size.height]

\* Entry of draw_string: the line height, the cursor. measured, start_y and
\* breaks record the measurement made, the first line and the characters
\* lines were broken at; reach, the largest cursor offset; on_line and
\* checks, as in get_string_size (observation only).
DrawStart(call) ==
    [op |-> "draw_loop",
     string |-> call.string,
     line_height_arg |-> call.line_height_arg,
     max_width |-> call.max_width,
     font |-> call.font,
     halign |-> call.halign,
     valign |-> call.valign,
     x |-> call.x,
     y |-> call.y,
     line_height |-> LineHeight(call.line_height_arg, call.font),
     pos |-> 1,
     at |-> 0,
     cursor_x |-> StartCursor(call).x,
     cursor_y |-> StartCursor(call).y,
     start_x |-> StartCursor(call).x,
     start_y |-> StartCursor(call).y,
     measured |-> IF Measures(call)
                  THEN Some(<<AlignSize(call).width, AlignSize(call).height>>)
                  ELSE None,
     breaks |-> <<>>,
     reach |-> 0,
     on_line |-> 0,
     checks |-> <<>>]

\* cursor_x = start_x; cursor_y += line_height
NewLine(t) ==
    [t EXCEPT !.cursor_x = t.start_x, !.cursor_y = @ + t.line_height]

\* let line_width = (cursor_x - start_x) as u32
LineWidth(t) == t.cursor_x - t.start_x

\* Mutant: the wrap check adds the glyph's distance.
DrawGoesOver_Distance(t, ch) ==
    /\ IsSome(t.max_width)
    /\ LineWidth(t) + ch.distance > Unwrap(t.max_width)
    /\ LineWidth(t) # 0

\* "Check if we're going over the max width"
DrawGoesOver(t, ch) ==
    /\ IsSome(t.max_width)
    /\ LineWidth(t) + ch.width > Unwrap(t.max_width)
    /\ LineWidth(t) # 0

\* Mutant: the cursor moves by the glyph's width.
MoveCursor_Width(t, ch) ==
    [t EXCEPT !.cursor_x = @ + ch.width,
              !.reach = IF LineWidth(t) + ch.width > @
                        THEN LineWidth(t) + ch.width ELSE @]

\* "Move cursor"
MoveCursor(t, ch) ==
    [t EXCEPT !.cursor_x = @ + ch.distance,
              !.reach = IF LineWidth(t) + ch.distance > @
                        THEN LineWidth(t) + ch.distance ELSE @]

\* The cursor a glyph is drawn at: on a new line when the line would go over.
Wrapped(t, ch) ==
    IF DrawGoesOver(t, ch)
    THEN [NewLine(t) EXCEPT !.breaks = Append(@, t.at), !.on_line = 0]
    ELSE t

\* renderer.draw_sprite_partial for the glyph of the character at position
\* `at`, at (character.offset + cursor_x, cursor_y).
GlyphCall(t, ch) ==
    DrawPartialCall("text", t.at, <<ch.offset + t.cursor_x, t.cursor_y>>)

\* '#': a new line, no glyph.
DrawAtNewline(t) ==
    [NewLine(t) EXCEPT !.pos = @ + 1, !.breaks = Append(@, t.pos), !.on_line = 0]

\* The look-up of '\#' or of any other character.
DrawLooked(t) == GetChar(t.font, Looked(t))
DrawNext(t) == [t EXCEPT !.pos = @ + Consumed(t), !.at = t.pos]

\* The glyph: the wrap check, the renderer call, the cursor move; or nothing
\* when the font has none.
DrawGlyph ==
    LET ch == DrawLooked(text)
        n == DrawNext(text)
    IN  IF IsSome(ch)
        THEN LET w == Wrapped(n, Unwrap(ch))
                 m == MoveCursor(w, Unwrap(ch))
             IN  /\ renderer' = Append(renderer, GlyphCall(w, Unwrap(ch)))
                 /\ frame_open' = TRUE
                 /\ text' = [m EXCEPT !.on_line = @ + 1,
                                      !.checks = Append(@, Check(n.at, Unwrap(ch), LineWidth(n),
                                                                 n.on_line,
                                                                 Len(w.breaks) > Len(n.breaks),
                                                                 LineWidth(m)))]
        ELSE /\ text' = n
             /\ UNCHANGED <<renderer, frame_open>>

\* What draw_string leaves alone.
drawn_on == <<pc, frame, result, views_enabled, views, view_current, count,
              backgrounds, instance_list, inst_order, tile_list, tile_order,
              iter_inst, iter_inst_v, iter_tile, iter_tile_v, presses, hist>>

DrawStringEnter ==
    /\ text.op = "draw"
    /\ text' = DrawStart(text)
    /\ UNCHANGED <<game, real>>

DrawStringNewline ==
    /\ text.op = "draw_loop"
    /\ AtNewline(text)
    /\ text' = DrawAtNewline(text)
    /\ UNCHANGED <<game, real>>

DrawStringEscape ==
    /\ text.op = "draw_loop"
    /\ AtEscape(text)
    /\ DrawGlyph
    /\ UNCHANGED <<drawn_on, real>>

DrawStringChar ==
    /\ text.op = "draw_loop"
    /\ AtChar(text)
    /\ DrawGlyph
    /\ UNCHANGED <<drawn_on, real>>

\* The string is exhausted: draw_string returns.
DrawStringEnd ==
    /\ text.op = "draw_loop"
    /\ AtEnd(text)
    /\ text' = [text EXCEPT !.op = "draw_done"]
    /\ UNCHANGED <<game, real>>

NextDraw ==
    \/ DrawStringEnter \/ DrawStringNewline \/ DrawStringEscape
    \/ DrawStringChar \/ DrawStringEnd

SpecDraw == InitDraw /\ [][NextDraw]_vars

\* Calls of get_string_size and calls of draw_string.
InitStrings == InitText \/ InitDraw
NextStrings == NextText \/ NextDraw
SpecStrings == InitStrings /\ [][NextStrings]_vars

-----------------------------------------------------------------------------
(* Observations of a measured string.                                      *)

\* The '#' that start a new line: those not preceded by a backslash.
UnescapedHashes(s) ==
    {i \in 1..Len(s) : s[i] = "#" /\ (i = 1 \/ s[i - 1] # "\\")}

\* The glyph the character at position i of s contributes, if any: an escaped
\* '#' that of '#', the backslash escaping it none, an unescaped '#' none.
GlyphAt(f, s, i) ==
    IF s[i] = "#"
    THEN IF i \in UnescapedHashes(s) THEN None ELSE GetChar(f, "#")
    ELSE IF s[i] = "\\" /\ i < Len(s) /\ s[i + 1] = "#" THEN None
    ELSE GetChar(f, s[i])

RECURSIVE TotalDistance(_, _, _)
TotalDistance(f, s, i) ==
    IF i > Len(s) THEN 0
    ELSE (IF IsSome(GlyphAt(f, s, i)) THEN Unwrap(GlyphAt(f, s, i)).distance ELSE 0)
         + TotalDistance(f, s, i + 1)

RECURSIVE SumSeq(_)
SumSeq(q) == IF q = <<>> THEN 0 ELSE Head(q) + SumSeq(Tail(q))

ExampleString == <<"A", "B", "#", "C">>

(* C10: get_string_size returns height = line_height * (lines committed),  *)
(* one line for every unescaped '#', one for every wrap and one more after *)
(* the last character, and width = the widest line, the widths of the      *)
(* lines adding up to the distances of the glyphs; a '#' adds no width.    *)
(* The empty string measures (0, line_height); "AB#C" with distances 12,   *)
(* 10, 8 and an 'M' of height 16 measures (22, 32).                        *)
C10_MeasuredSize ==
    text.op = "measure_done" =>
        LET m == Fonts[text.font]["M"]
            line_height ==
                IF IsSome(text.line_height_arg) THEN Unwrap(text.line_height_arg)
                ELSE IF IsSome(m) THEN Unwrap(m).height ELSE 0
            n == Len(text.lines)
        IN  /\ n = 1 + Cardinality(UnescapedHashes(text.string)) + text.wraps
            /\ ~IsSome(text.max_width) => text.wraps = 0
            /\ text.height = line_height * n
            /\ \A k \in 1..n : text.lines[k] <= text.width
            /\ \E k \in 1..n : text.lines[k] = text.width
            /\ SumSeq(text.lines) = TotalDistance(text.font, text.string, 1)
            /\ text.string = <<>> => text.width = 0 /\ text.height = line_height
            /\ (/\ text.string = ExampleString
                /\ text.font = 1
                /\ text.line_height_arg = None
                /\ text.max_width = None) => text.width = 22 /\ text.height = 32

C10_Witness ==
    /\ text.op = "measure_done"
    /\ text.string = ExampleString
    /\ text.font = 1
    /\ text.line_height_arg = None
    /\ text.max_width = None
    /\ text.width = 22
    /\ text.height = 32

-----------------------------------------------------------------------------
(* Observations of the glyphs of a string, measured or drawn.              *)

InString == text.op \in {"measure_loop", "measure_done", "draw_loop", "draw_done"}
Checks == IF InString THEN text.checks ELSE <<>>

\* The line's width after a glyph is its width before, or 0 after a wrap,
\* plus the glyph's distance.
AdvancesByDistance(c) ==
    c.after = (IF c.wrapped THEN 0 ELSE c.line_width) + c.distance

(* C11, as claimed: a line is wrapped before a glyph exactly when a width  *)
(* is given, line width + glyph width exceeds it and the line already      *)
(* holds a glyph; the cursor advances by the glyph's distance.             *)
C11_WrapsWhenLineHoldsGlyph ==
    \A k \in 1..Len(Checks) :
        LET c == Checks[k]
        IN  /\ c.wrapped <=> /\ IsSome(text.max_width)
                             /\ c.line_width + c.width > Unwrap(text.max_width)
                             /\ c.on_line > 0
            /\ AdvancesByDistance(c)

(* C11, amended: a line is wrapped before a glyph exactly when a width is  *)
(* given, line width + glyph width exceeds it and the line's width is not  *)
(* 0: a glyph on a line of width 0 is never wrapped, however wide, also    *)
(* when the line holds glyphs of distance 0. The test uses the glyph's     *)
(* width, the advance its distance, in get_string_size and draw_string.    *)
C11_WrapsWhenLineHasWidth ==
    \A k \in 1..Len(Checks) :
        LET c == Checks[k]
        IN  /\ c.wrapped <=> /\ IsSome(text.max_width)
                             /\ c.line_width + c.width > Unwrap(text.max_width)
                             /\ c.line_width # 0
            /\ c.line_width = 0 => ~c.wrapped
            /\ AdvancesByDistance(c)

C11_Witness ==
    /\ text.op = "draw_done"
    /\ IsSome(text.max_width)
    /\ \E j, k \in 1..Len(Checks) :
        /\ j < k
        /\ Checks[j].line_width = 0
        /\ Checks[j].width > Unwrap(text.max_width)
        /\ ~Checks[j].wrapped
        /\ Checks[k].wrapped
        /\ Checks[k].after = Checks[k].distance

\* The characters that got a glyph, and those lines were broken at by a '#'.
GlyphsAt == [k \in 1..Len(Checks) |-> Checks[k].at]
NewlinesAt == IF InString THEN SelectSeq(text.breaks, LAMBDA p : text.string[p] = "#") ELSE <<>>
StringDone == text.op \in {"measure_done", "draw_done"}

\* The backslashes followed by '#'.
Escapes(s) == {i \in 1..(Len(s) - 1) : s[i] = "\\" /\ s[i + 1] = "#"}

EscapeExample == <<"A", "\\", "#", "B">>

(* C12: a backslash followed by '#' consumes both characters, emits the    *)
(* glyph of '#' and starts no line; an unescaped '#' starts a line and     *)
(* emits no glyph; "A\#B" is one line of the glyphs A, #, B, measured and  *)
(* drawn.                                                                  *)
C12_EscapedHash ==
    StringDone =>
        LET s == text.string
            hash == GetChar(text.font, "#")
        IN  /\ \A i \in Escapes(s) :
                /\ \A k \in 1..Len(text.breaks) : text.breaks[k] # i + 1
                /\ \A k \in 1..Len(Checks) : Checks[k].at # i + 1
                /\ IsSome(hash) =>
                    \E k \in 1..Len(Checks) :
                        /\ Checks[k].at = i
                        /\ Checks[k].width = Unwrap(hash).width
                        /\ Checks[k].distance = Unwrap(hash).distance
            /\ \A i \in UnescapedHashes(s) :
                /\ \E k \in 1..Len(NewlinesAt) : NewlinesAt[k] = i
                /\ \A k \in 1..Len(Checks) : Checks[k].at # i
            /\ Len(NewlinesAt) = Cardinality(UnescapedHashes(s))
            /\ (s = EscapeExample /\ text.font = 1 /\ text.max_width = None) =>
                /\ text.breaks = <<>>
                /\ GlyphsAt = <<1, 2, 4>>
                /\ [k \in 1..3 |-> Checks[k].distance] = <<12, 5, 10>>
                /\ text.op = "measure_done" => text.lines = <<27>>
                /\ text.op = "draw_done" => Len(renderer) = 3

C12_Witness ==
    /\ text.op = "draw_done"
    /\ text.string = EscapeExample
    /\ text.font = 1
    /\ text.max_width = None
    /\ Len(renderer) = 3
    /\ text.cursor_y = text.start_y
    /\ GlyphsAt = <<1, 2, 4>>

-----------------------------------------------------------------------------
(* Observations of a drawn string.                                         *)

InDraw == text.op \in {"draw_loop", "draw_done"}

\* The size of the string measured without line height and without width.
NaturalSize == GetStringSize(text.string, None, None, text.font)

\* The cursor the alignment asks for, from a size (W, H).
AlignedX(W) ==
    CASE text.halign = "Left" -> text.x
      [] text.halign = "Middle" -> text.x - (W \div 2)
      [] text.halign = "Right" -> text.x - W
AlignedY(H) ==
    CASE text.valign = "Top" -> text.y
      [] text.valign = "Middle" -> text.y - (H \div 2)
      [] text.valign = "Bottom" -> text.y - H

\* The glyph of the character that the k-th renderer call draws.
CallGlyph(k) ==
    LET c == text.string[renderer[k].id]
    IN  Unwrap(GetChar(text.font, IF c = "\\" THEN "#" ELSE c))

\* The starting cursor is the aligned one for the natural size, and the
\* string is measured only when the alignment is not (Left, Top).
StartsAligned ==
    /\ text.start_x = AlignedX(NaturalSize.width)
    /\ text.start_y = AlignedY(NaturalSize.height)
    /\ IF text.halign = "Left" /\ text.valign = "Top"
       THEN text.measured = None
       ELSE text.measured = Some(<<NaturalSize.width, NaturalSize.height>>)

\* With (Right, Bottom) the first glyph is drawn at (x - W + offset, y - H).
FirstGlyphAtStart ==
    (text.halign = "Right" /\ text.valign = "Bottom" /\ Len(renderer) > 0) =>
        renderer[1].arg = <<text.x - NaturalSize.width + CallGlyph(1).offset,
                            text.y - NaturalSize.height>>

(* C13, as claimed: the starting cursor of draw_string is the aligned one  *)
(* for the size measured without line height and width, and with (Right,   *)
(* Bottom) the first glyph is drawn at (x - W + offset, y - H).            *)
C13_FirstGlyphAtAlignedStart ==
    InDraw => StartsAligned /\ FirstGlyphAtStart

(* C13, amended: the starting cursor of draw_string is x, x - W/2 or x - W *)
(* and y, y - H/2 or y - H for the size (W, H) measured without line       *)
(* height and width, whatever the caller passed; nothing is measured for   *)
(* (Left, Top); with (Right, Bottom) the first glyph is drawn at           *)
(* (x - W + offset, y - H) when no unescaped '#' comes before it.          *)
C13_AlignedStart ==
    InDraw =>
        /\ StartsAligned
        /\ (\A i \in UnescapedHashes(text.string) :
                Len(renderer) > 0 => i > renderer[1].id) => FirstGlyphAtStart

C13_Witness ==
    /\ text.op = "draw_done"
    /\ text.halign = "Right"
    /\ text.valign = "Bottom"
    /\ Len(renderer) > 1
    /\ text.breaks # <<>>
    /\ text.line_height # NaturalSize.line_height
    /\ text.reach # NaturalSize.width
    /\ text.start_x = text.x - NaturalSize.width
    /\ text.start_y = text.y - NaturalSize.height
    /\ renderer[1].arg = <<text.start_x + CallGlyph(1).offset, text.start_y>>
    /\ CallGlyph(1).offset > 0

\* The same string measured with the line height and width it is drawn with.
SameSize == GetStringSize(text.string, text.line_height_arg, text.max_width, text.font)

\* The lines broken before the character at position p.
BreaksBefore(p) == Cardinality({k \in 1..Len(text.breaks) : text.breaks[k] <= p})

(* C20: draw_string breaks lines at the characters at which get_string_size*)
(* with the same line height and width commits them: lines drawn times     *)
(* line height is the measured height, the largest cursor offset reached   *)
(* is the measured width, and there is one draw_sprite_partial for each    *)
(* character that has a glyph, in string order, at (cursor_x + offset,     *)
(* cursor_y).                                                              *)
C20_DrawsAsMeasured ==
    text.op = "draw_done" =>
        /\ text.breaks = SameSize.breaks
        /\ (Len(text.breaks) + 1) * text.line_height = SameSize.height
        /\ text.cursor_y = text.start_y + SameSize.height - text.line_height
        /\ text.reach = SameSize.width
        /\ LineWidth(text) = SameSize.current_line_width
        /\ [k \in 1..Len(renderer) |-> renderer[k].id] = SameSize.glyphs
        /\ \A k \in 1..Len(renderer) :
            /\ renderer[k].op = "draw_sprite_partial"
            /\ renderer[k].arg =
                <<text.start_x + CallGlyph(k).offset
                    + SameSize.checks[k].after - SameSize.checks[k].distance,
                  text.start_y + BreaksBefore(renderer[k].id) * text.line_height>>

C20_Witness ==
    /\ text.op = "draw_done"
    /\ Len(renderer) >= 3
    /\ text.line_height > 0
    /\ \E j, k \in 1..Len(text.breaks) :
        /\ text.string[text.breaks[j]] = "#"
        /\ text.string[text.breaks[k]] # "#"
    /\ text.breaks = SameSize.breaks
    /\ text.reach = SameSize.width
    /\ text.reach > LineWidth(text)
    /\ \E k \in 1..Len(renderer) : CallGlyph(k).offset > 0

-----------------------------------------------------------------------------
(* Observations of the instances drawn.                                    *)

\* The draw_instance calls, DRAW events and draw_sprite calls of the frame
\* for instance idx.
DrawnOf(idx) ==
    {k \in 1..Len(hist.drawn) : hist.drawn[k].kind = "instance" /\ hist.drawn[k].idx = idx}
EventsOf(idx) == {k \in 1..Len(hist.events) : hist.events[k].this = idx}
SpritesOf(idx) ==
    {k \in 1..Len(renderer) :
        /\ renderer[k].op = "draw_sprite"
        /\ renderer[k].src = "instance"
        /\ renderer[k].id = idx}

\* Whether the object of an instance has a DRAW event.
HasDrawEvent(inst) == inst.object_index \in custom_draw_objects

\* The instances of the room that have not been removed.
Instances == {idx \in 1..Len(instance_list) : Present(instance_list, idx)}

(* C18: for an instance without DRAW event whose sprite has frames, each   *)
(* default draw calls draw_sprite once, with the frame floor(image_index)  *)
(* mod frame count, also for a negative image_index; for a sprite without *)
(* frames it calls nothing.                                                *)
C18_DefaultDrawFrame ==
    \A idx \in Instances :
        LET inst == Unwrap(instance_list[idx])
            sprite == GetSprite(inst.sprite_index)
        IN  (~HasDrawEvent(inst) /\ IsSome(sprite)) =>
                IF Unwrap(sprite).frames > 0
                THEN /\ Cardinality(SpritesOf(idx)) = Cardinality(DrawnOf(idx))
                     /\ \A k \in SpritesOf(idx) :
                            renderer[k].arg =
                                <<inst.sprite_index,
                                  FloorIndex(inst.image_index) % Unwrap(sprite).frames>>
                ELSE SpritesOf(idx) = {}

(* C19: each draw of an instance of an object with a DRAW event dispatches *)
(* exactly one DRAW event, subtype 0, self = other = the instance, and     *)
(* makes no draw_sprite call for it, with or without sprite; an instance   *)
(* of another object never triggers a DRAW event.                          *)
C19_CustomDrawDispatch ==
    \A idx \in Instances :
        LET inst == Unwrap(instance_list[idx])
        IN  IF HasDrawEvent(inst)
            THEN /\ Cardinality(EventsOf(idx)) = Cardinality(DrawnOf(idx))
                 /\ \A j, k \in EventsOf(idx) :
                        hist.events[j].pass = hist.events[k].pass => j = k
                 /\ \A k \in EventsOf(idx) :
                        /\ hist.events[k].event = "DRAW"
                        /\ hist.events[k].sub = 0
                        /\ hist.events[k].other = idx
                 /\ SpritesOf(idx) = {}
            ELSE EventsOf(idx) = {}

C19_Witness ==
    /\ pc = "finish"
    /\ \E i, j \in Instances :
        /\ HasDrawEvent(Unwrap(instance_list[i]))
        /\ IsSome(GetSprite(Unwrap(instance_list[i]).sprite_index))
        /\ Cardinality(EventsOf(i)) = 1
        /\ ~HasDrawEvent(Unwrap(instance_list[j]))
        /\ Cardinality(SpritesOf(j)) = 1

-----------------------------------------------------------------------------
(* math.rs: Real, an f64 whose arithmetic runs on the x87 FPU.             *)
(*                                                                         *)
(* A natural number is the sequence of its bits, lowest first, without     *)
(* leading zeros (0 is <<>>). A finite f64 or x87 value is sign * man *    *)
(* 2^exp with an odd man; NaN and the infinities are values of their own.  *)
(* Exponent overflow and subnormal results are not modelled.               *)

\* A sequence of bits without its leading zeros.
Trim(a) ==
    IF a = <<>> \/ a[Len(a)] = 1 THEN a
    ELSE LET ones == {i \in 1..Len(a) : a[i] = 1}
         IN  IF ones = {} THEN <<>>
             ELSE SubSeq(a, 1, CHOOSE i \in ones : \A j \in ones : j <= i)

Zeros(n) == [i \in 1..n |-> 0]
ShiftLeft(a, n) == IF a = <<>> THEN <<>> ELSE Zeros(n) \o a

RECURSIVE BitsInt(_)
BitsInt(a) == IF a = <<>> THEN 0 ELSE Head(a) + 2 * BitsInt(Tail(a))

\* Numbers are added, subtracted and compared in pieces of 15 bits.
Pieces(a) == (Len(a) + 14) \div 15
Piece(a, k) == BitsInt([i \in 1..15 |-> IF 15 * k + i <= Len(a) THEN a[15 * k + i] ELSE 0])
PieceBits(n) == [i \in 1..15 |-> (n \div (2 ^ (i - 1))) % 2]

RECURSIVE AddCarry(_, _, _, _)
AddCarry(a, b, k, c) ==
    IF k >= Pieces(a) /\ k >= Pieces(b) THEN (IF c = 1 THEN <<1>> ELSE <<>>)
    ELSE LET t == Piece(a, k) + Piece(b, k) + c
         IN  PieceBits(t % (2 ^ 15)) \o AddCarry(a, b, k + 1, t \div (2 ^ 15))
NatAdd(a, b) == Trim(AddCarry(a, b, 0, 0))

\* a - b for a >= b.
RECURSIVE SubBorrow(_, _, _, _)
SubBorrow(a, b, k, c) ==
    IF k >= Pieces(a) THEN <<>>
    ELSE LET t == Piece(a, k) - Piece(b, k) - c
         IN  PieceBits(t % (2 ^ 15)) \o SubBorrow(a, b, k + 1, IF t < 0 THEN 1 ELSE 0)
NatSub(a, b) == Trim(SubBorrow(a, b, 0, 0))

\* -1, 0 or 1 as a < b, a = b or a > b.
RECURSIVE CmpFrom(_, _, _)
CmpFrom(a, b, k) ==
    IF k < 0 THEN 0
    ELSE IF Piece(a, k) > Piece(b, k) THEN 1
    ELSE IF Piece(a, k) < Piece(b, k) THEN 0 - 1
    ELSE CmpFrom(a, b, k - 1)
NatCmp(a, b) ==
    IF Len(a) > Len(b) THEN 1
    ELSE IF Len(a) < Len(b) THEN 0 - 1
    ELSE CmpFrom(a, b, Pieces(a) - 1)

\* The bits of a number below 2^w.
IntBits(n, w) == Trim([i \in 1..w |-> (n \div (2 ^ (i - 1))) % 2])

\* The bits of a number given in 16-bit pieces, highest first.
RECURSIVE ChunkBits(_)
ChunkBits(chunks) ==
    IF chunks = <<>> THEN <<>>
    ELSE Trim([i \in 1..16 |-> (chunks[Len(chunks)] \div (2 ^ (i - 1))) % 2]
              \o ChunkBits(SubSeq(chunks, 1, Len(chunks) - 1)))

NaN == [kind |-> "nan"]
Inf(sign) == [kind |-> "inf", sign |-> sign]

\* sign * man * 2^exp, with the low zero bits of man moved into exp.
Fin(sign, man, exp) ==
    IF man = <<>> THEN [kind |-> "fin", sign |-> sign, man |-> <<>>, exp |-> 0]
    ELSE LET low == CHOOSE i \in 1..Len(man) : man[i] = 1 /\ \A j \in 1..(i - 1) : man[j] = 0
         IN  [kind |-> "fin", sign |-> sign, man |-> SubSeq(man, low, Len(man)),
              exp |-> exp + low - 1]

IsFin(v) == v.kind = "fin"
IsZero(v) == IsFin(v) /\ v.man = <<>>
Neg(v) == IF v.kind = "nan" THEN v ELSE [v EXCEPT !.sign = 0 - @]

\* impl From<i32> for Real
FromInt(i) == Fin(IF i < 0 THEN 0 - 1 ELSE 1, IntBits(IF i < 0 THEN 0 - i ELSE i, 31), 0)

\* The f64 that is q / 4.
FromQuarters(q) ==
    Fin(IF q < 0 THEN 0 - 1 ELSE 1, IntBits(IF q < 0 THEN 0 - q ELSE q, 31), 0 - 2)

\* The exact sum of two finite values.
AddExact(a, b) ==
    LET e == IF a.exp < b.exp THEN a.exp ELSE b.exp
        ma == ShiftLeft(a.man, a.exp - e)
        mb == ShiftLeft(b.man, b.exp - e)
        c == NatCmp(ma, mb)
    IN  IF a.sign = b.sign THEN Fin(a.sign, NatAdd(ma, mb), e)
        ELSE IF c = 0 THEN Fin(1, <<>>, 0)
        ELSE IF c > 0 THEN Fin(a.sign, NatSub(ma, mb), e)
        ELSE Fin(b.sign, NatSub(mb, ma), e)

\* Mutant: a value halfway between two neighbours goes to the larger one.
TiesToEven_Away(odd, c) == c >= 0

\* Round to nearest, ties to even (the FPU's rounding mode): whether the
\* kept part is incremented; c compares the dropped part with one half,
\* odd says the kept part is odd.
TiesToEven(odd, c) == c > 0 \/ (c = 0 /\ odd)

\* A natural number with its d lowest bits rounded away.
DropBits(a, d) ==
    IF d <= 0 THEN a
    ELSE LET kept == SubSeq(a, d + 1, Len(a))
             dropped == Trim(SubSeq(a, 1, IF d < Len(a) THEN d ELSE Len(a)))
             half == ShiftLeft(<<1>>, d - 1)
             up == TiesToEven(kept # <<>> /\ Head(kept) = 1, NatCmp(dropped, half))
         IN  IF up THEN NatAdd(kept, <<1>>) ELSE kept

\* A finite value rounded to a significand of p bits.
RoundTo(v, p) ==
    IF ~IsFin(v) \/ Len(v.man) <= p THEN v
    ELSE Fin(v.sign, DropBits(v.man, Len(v.man) - p), v.exp + Len(v.man) - p)

\* fld qword: an f64 on the FPU stack, exactly.
Fld(v) == v

\* The FPU's result: the exact one rounded to the 64 bits of its significand.
Extended(v) == RoundTo(v, 64)

\* Mutant: the result is stored as a single-precision value.
Fstp_Single(v) == RoundTo(v, 24)

\* fstp qword: the top of the FPU stack stored as an f64 of 53 bits.
Fstp(v) == RoundTo(v, 53)

\* faddp st, st(1)
Faddp(a, b) ==
    IF a.kind = "nan" \/ b.kind = "nan" THEN NaN
    ELSE IF a.kind = "inf" /\ b.kind = "inf"
         THEN (IF a.sign = b.sign THEN a ELSE NaN)
    ELSE IF a.kind = "inf" THEN a
    ELSE IF b.kind = "inf" THEN b
    ELSE Extended(AddExact(a, b))

\* fsubp st, st(1): op1 - op2, as tests::sub asserts (3.0 - 2.0 is 1.0).
Fsubp(a, b) == Faddp(a, Neg(b))

\* fpu_binary_op!(code, op1, op2)
fpu_binary_op(code, op1, op2) ==
    Fstp(IF code = "faddp" THEN Faddp(Fld(op1), Fld(op2)) ELSE Fsubp(Fld(op1), Fld(op2)))

\* impl Add for Real, impl Sub for Real
add(self, other) == fpu_binary_op("faddp", self, other)
sub(self, other) == fpu_binary_op("fsubp", self, other)

\* The comparisons of f64; a NaN is unordered with every value.
SignOrd(sign) == IF sign < 0 THEN "less" ELSE "greater"
F64Cmp(x, y) ==
    IF x.kind = "nan" \/ y.kind = "nan" THEN "unordered"
    ELSE IF x.kind = "inf" /\ y.kind = "inf"
         THEN (IF x.sign = y.sign THEN "equal" ELSE SignOrd(x.sign))
    ELSE IF x.kind = "inf" THEN SignOrd(x.sign)
    ELSE IF y.kind = "inf" THEN SignOrd(0 - y.sign)
    ELSE LET d == AddExact(x, Neg(y)) IN IF IsZero(d) THEN "equal" ELSE SignOrd(d.sign)
F64Lt(x, y) == F64Cmp(x, y) = "less"

\* Mutant: the difference has to be below the negated tolerance.
F64Le_Strict(x, y) == F64Cmp(x, y) = "less"

F64Le(x, y) == F64Cmp(x, y) \in {"less", "equal"}
F64Ge(x, y) == F64Cmp(x, y) \in {"greater", "equal"}

\* f64::abs
abs(v) == IF v.kind = "nan" THEN v ELSE [v EXCEPT !.sign = 1]

\* const CMP_EPSILON: f64 = 1e-13, which is 3961408125713217 * 2^-95.
CMP_EPSILON == Fin(1, ChunkBits(<<14, 4833, 13348, 47937>>), 0 - 95)

\* impl PartialEq for Real
eq(self, other) == F64Lt(abs(sub(self, other)), CMP_EPSILON)

\* impl PartialOrd for Real
partial_cmp(self, other) ==
    LET d == sub(self, other)
    IN  IF F64Ge(d, CMP_EPSILON) THEN "Greater"
        ELSE IF F64Le(d, Neg(CMP_EPSILON)) THEN "Less"
        ELSE "Equal"

\* The operators Rust derives from partial_cmp.
lt(self, other) == partial_cmp(self, other) = "Less"
le(self, other) == partial_cmp(self, other) \in {"Less", "Equal"}
gt(self, other) == partial_cmp(self, other) = "Greater"
ge(self, other) == partial_cmp(self, other) \in {"Greater", "Equal"}

\* An i64 as its sign and the bits of its magnitude.
Int64(sign, mag) == [sign |-> IF mag = <<>> THEN 1 ELSE sign, mag |-> mag]

\* The integer indefinite, -2^63: what fistp stores for a NaN, an infinity
\* or a value that does not fit an i64.
Indefinite == Int64(0 - 1, ShiftLeft(<<1>>, 63))

\* fistp qword: the value rounded to an integer in the FPU's rounding mode.
Fistp(v) ==
    IF ~IsFin(v) THEN Indefinite
    ELSE LET mag == IF v.exp >= 0 THEN ShiftLeft(v.man, v.exp)
                    ELSE DropBits(v.man, 0 - v.exp)
         IN  IF Len(mag) > 63 THEN Indefinite ELSE Int64(v.sign, mag)

\* Real::round64
round64(self) == Fistp(Fld(self))

\* i & u32::max_value() as i64: the low 32 bits of the two's complement.
Low32(i) ==
    LET low == Trim(SubSeq(i.mag, 1, IF Len(i.mag) < 32 THEN Len(i.mag) ELSE 32))
    IN  IF i.sign < 0 /\ low # <<>> THEN NatSub(ShiftLeft(<<1>>, 32), low) ELSE low

\* as i32: 32 bits read as a signed integer.
AsI32(bits) ==
    IF Len(bits) = 32 THEN BitsInt(Trim(SubSeq(bits, 1, 31))) - 2 ^ 30 - 2 ^ 30
    ELSE BitsInt(bits)

\* Real::round
round(self) == AsI32(Low32(round64(self)))

-----------------------------------------------------------------------------
(* Calls of the operations of Real. *)

MaxSums == 100

\* The f64 values 0.1, 0.2, 0.3 and 19.0 of the tests.
Tenth == Fin(1, ChunkBits(<<12, 52428, 52428, 52429>>), 0 - 55)
INCREMENT == Fin(1, ChunkBits(<<12, 52428, 52428, 52429>>), 0 - 54)
ThreeTenths == Fin(1, ChunkBits(<<19, 13107, 13107, 13107>>), 0 - 54)
target == Fin(1, IntBits(19, 5), 0)

\* Half of the tolerance.
HalfEpsilon == Fin(1, CMP_EPSILON.man, CMP_EPSILON.exp - 1)

\* The values compared: those of the tests lt, le, gt and ge, values within
\* the tolerance of each other, and the IEEE sentinels.
CompareValues ==
    { FromInt(0), HalfEpsilon, CMP_EPSILON, ThreeTenths, add(Tenth, INCREMENT),
      FromInt(3), FromInt(4), FromInt(0 - 3), FromInt(0 - 4),
      NaN, Inf(1), Inf(0 - 1) }

AddValues == {Tenth, INCREMENT, ThreeTenths, FromInt(1), FromInt(2), FromInt(3)}

\* for i in 0..1000
RoundTests == 1000

\* The values rounded, in quarters: i + 0.5 for the i of the test, and
\* the quarters around zero.
RoundQuarters == {4 * i + 2 : i \in 0..(RoundTests - 1)} \cup ((0 - 14)..14)
RoundHighs == {0 - 2, 0 - 1, 1, 2, 3}

\* The f64 that is high * 2^31 + q / 4.
RoundValue(high, q) ==
    AddExact(Fin(IF high < 0 THEN 0 - 1 ELSE 1,
                 IntBits(IF high < 0 THEN 0 - high ELSE high, 3), 31),
             FromQuarters(q))

RealCall(fn, args) == [op |-> "call", fn |-> fn, args |-> args]

RealCalls ==
    {RealCall("cmp", [v |-> <<a, b, c>>]) : a \in CompareValues, b \in CompareValues, c \in CompareValues}
    \cup {RealCall("add", [a |-> a, b |-> b]) : a \in AddValues, b \in AddValues}
    \cup {RealCall("round", [x |-> FromQuarters(q), high |-> 0, q |-> q]) : q \in RoundQuarters}
    \cup {RealCall("round", [x |-> RoundValue(h, q), high |-> h, q |-> q]) : h \in RoundHighs, q \in (0 - 14)..14}
    \cup {RealCall("round", [x |-> x, high |-> 0, q |-> 0]) :
              x \in {NaN, Inf(1), Inf(0 - 1), Fin(1, <<1>>, 63), Fin(0 - 1, <<1>>, 63),
                     Fin(1, <<1>>, 62), Fin(1, <<1, 1>>, 62)}}
    \cup {RealCall("prec_19", [increment |-> i, target |-> t]) :
              i \in {Tenth, INCREMENT}, t \in {target, ThreeTenths}}

InitReal ==
    /\ InitGame(FALSE, <<>>, <<>>, <<>>, <<>>)
    /\ text = TextIdle
    /\ real \in RealCalls

Calls(fn) == real.op = "call" /\ real.fn = fn

\* The comparison operators applied to every pair of the operands.
Compare ==
    /\ Calls("cmp")
    /\ LET v == real.args.v
       IN  real' = [op |-> "done", fn |-> "cmp", v |-> v,
                    ord |-> [i \in 1..3 |-> [j \in 1..3 |-> partial_cmp(v[i], v[j])]],
                    same |-> [i \in 1..3 |-> [j \in 1..3 |-> eq(v[i], v[j])]]]
    /\ UNCHANGED <<game, text>>

\* a + b, and its comparison with every value of the tests.
Add ==
    /\ Calls("add")
    /\ LET sum == add(real.args.a, real.args.b)
       IN  real' = [op |-> "done", fn |-> "add", a |-> real.args.a, b |-> real.args.b,
                    sum |-> sum,
                    same |-> {v \in AddValues : eq(sum, v)},
                    lt |-> {v \in AddValues : lt(v, sum)},
                    gt |-> {v \in AddValues : gt(sum, v)}]
    /\ UNCHANGED <<game, text>>

Round ==
    /\ Calls("round")
    /\ real' = [op |-> "done", fn |-> "round", x |-> real.args.x,
                high |-> real.args.high, q |-> real.args.q,
                round64 |-> round64(real.args.x), round |-> round(real.args.x)]
    /\ UNCHANGED <<game, text>>

\* tests::prec_19: let mut x = INCREMENT
SumEnter ==
    /\ Calls("prec_19")
    /\ real' = [op |-> "loop", fn |-> "prec_19", increment |-> real.args.increment,
                target |-> real.args.target, x |-> real.args.increment, n |-> 0]
    /\ UNCHANGED <<game, text>>

\* One turn of the loop: x += INCREMENT, then break, panic or go on.
SumStep ==
    /\ real.op = "loop"
    /\ real.n < MaxSums
    /\ LET x == add(real.x, real.increment)
       IN  real' = [real EXCEPT !.x = x, !.n = @ + 1,
                                !.op = IF eq(x, real.target) THEN "break"
                                       ELSE IF gt(x, real.target) THEN "panic"
                                       ELSE "loop"]
    /\ UNCHANGED <<game, text>>

NextReal == Compare \/ Add \/ Round \/ SumEnter \/ SumStep
SpecReal == InitReal /\ [][NextReal]_vars

-----------------------------------------------------------------------------
(* Observations of the operations of Real. *)

Compared == real.op = "done" /\ real.fn = "cmp"
Less(i, j) == real.ord[i][j] = "Less"
Greater(i, j) == real.ord[i][j] = "Greater"
Equal(i, j) == real.ord[i][j] = "Equal"
LessEq(i, j) == Less(i, j) \/ Equal(i, j)
Same(i, j) == real.same[i][j]

\* C14: for every pair of Real values exactly one of a < b, a == b and
\* a > b holds, and a == b holds exactly when partial_cmp returns Equal.
C14_Trichotomy ==
    Compared =>
        \A i \in 1..3, j \in 1..3 :
            /\ Cardinality({r \in {"lt", "eq", "gt"} :
                               \/ r = "lt" /\ Less(i, j)
                               \/ r = "eq" /\ Same(i, j)
                               \/ r = "gt" /\ Greater(i, j)}) = 1
            /\ Same(i, j) <=> Equal(i, j)

\* C15 as stated: <= is reflexive, total and transitive, and the equality
\* it induces is an equivalence relation.
C15_TotalPreorder ==
    Compared =>
        \A i \in 1..3, j \in 1..3, k \in 1..3 :
            /\ LessEq(i, i)
            /\ LessEq(i, j) \/ LessEq(j, i)
            /\ LessEq(i, j) /\ LessEq(j, k) => LessEq(i, k)
            /\ Equal(i, j) => Equal(j, i)
            /\ Equal(i, j) /\ Equal(j, k) => Equal(i, k)

\* C15: <= is reflexive and total, < is irreflexive and transitive, the
\* equality induced by the ordering is reflexive and symmetric, and a < b
\* holds exactly when b > a.
C15_TolerantOrder ==
    Compared =>
        \A i \in 1..3, j \in 1..3, k \in 1..3 :
            /\ LessEq(i, i)
            /\ LessEq(i, j) \/ LessEq(j, i)
            /\ ~Less(i, i)
            /\ Less(i, j) /\ Less(j, k) => Less(i, k)
            /\ Equal(i, j) => Equal(j, i)
            /\ Less(i, j) <=> Greater(j, i)

\* Three values in a strictly increasing chain have been compared.
C15_Witness ==
    /\ Compared
    /\ Less(1, 2) /\ Less(2, 3) /\ Less(1, 3)

Rounded == real.op = "done" /\ real.fn = "round"

\* The integer nearest to q / 4, the even one of two that are equally near.
NearestEven(q) ==
    LET k == q \div 4
        r == q % 4
    IN  IF r < 2 THEN k
        ELSE IF r > 2 THEN k + 1
        ELSE IF k % 2 = 0 THEN k ELSE k + 1

\* high * 2^31 + n wrapped to 32 bits, for an n of small magnitude.
Wrapped32(high, n) ==
    IF high % 2 = 0 THEN n
    ELSE IF n >= 0 THEN n - 2 ^ 30 - 2 ^ 30
    ELSE n + 2 ^ 30 + 2 ^ 30

\* A value that fits an i64.
FitsInt64(x) == IsFin(x) /\ Len(x.man) + x.exp <= 63

\* C16: round gives the nearest integer, the even one for a value halfway
\* between two integers, wrapped to 32 bits: the low 32 bits of round64
\* read as a signed integer; round(i + 0.5) is even for every i in [0, 1000).
C16_BankersRounding ==
    Rounded =>
        /\ FitsInt64(real.x) => real.round = Wrapped32(real.high, NearestEven(real.q))
        /\ real.round = AsI32(Low32(real.round64))
        /\ (real.high = 0 /\ real.q \in {4 * i + 2 : i \in 0..(RoundTests - 1)})
               => real.round % 2 = 0

\* 2^31 + 1.5 has been rounded: to 2^31 + 2, which wraps to 2 - 2^31.
C16_Witness ==
    /\ Rounded
    /\ real.high = 1 /\ real.q = 6
    /\ real.round64.mag = NatAdd(ShiftLeft(<<1>>, 31), <<0, 1>>)
    /\ real.round < 0

Added == real.op = "done" /\ real.fn = "add"
Summing == real.fn = "prec_19" /\ real.op # "call"
               /\ real.increment = INCREMENT /\ real.target = target

\* C17: a sum is the exact sum rounded to the 64 bits of the extended
\* format and then to the 53 bits of an f64; 0.1 + 0.2 == 0.3; adding 0.2
\* to 0.2 over and over never gives a value greater than 19.0 before the
\* 94th addition gives one equal to 19.0.
C17_ExtendedPrecision ==
    /\ Added =>
           /\ real.sum = RoundTo(RoundTo(AddExact(real.a, real.b), 64), 53)
           /\ (real.a = Tenth /\ real.b = INCREMENT) =>
                  /\ ThreeTenths \in real.same
                  /\ ThreeTenths \notin real.lt \cup real.gt
    /\ Summing =>
           /\ real.op # "panic"
           /\ real.op = "loop" => real.n < (190 - 2) \div 2
           /\ real.op = "break" => real.n = (190 - 2) \div 2

\* The sum has reached 19.0.
C17_Witness == Summing /\ real.op = "break"

-----------------------------------------------------------------------------
(* Observations of the merge loop. *)

\* The draw_instance / draw_tile calls of the last pass for one element.
Dispatches(kind, idx) ==
    {k \in 1..Len(PassDrawn) : PassDrawn[k].kind = kind /\ PassDrawn[k].idx = idx}

InOrder(order) == {order[k] : k \in 1..Len(order)}

\* The pass is past its merge loop, or was ended inside it.
MergeOver ==
    /\ hist.pass > 0
    /\ pc \in {"foregrounds", "views", "finish", "returned", "panicked", "crashed"}

\* No DRAW event of the pass changed a list or failed.
QuietPass == ~hist.mutated /\ ~IsSome(hist.err_len)

\* C21: in a pass in which no list changes and no DRAW event fails, no
\* element is drawn twice, only elements of the two draw orders are drawn,
\* and once the merge loop is over every element of the instance order and
\* of the tile order has been drawn.
C21_EachDrawnOnce ==
    (hist.pass > 0 /\ QuietPass) =>
        /\ \A k \in 1..Len(PassDrawn) :
               /\ Cardinality(Dispatches(PassDrawn[k].kind, PassDrawn[k].idx)) = 1
               /\ PassDrawn[k].idx \in
                      InOrder(IF PassDrawn[k].kind = "instance"
                              THEN inst_order ELSE tile_order)
        /\ MergeOver =>
               /\ \A i \in InOrder(inst_order) : Dispatches("instance", i) # {}
               /\ \A t \in InOrder(tile_order) : Dispatches("tile", t) # {}

-----------------------------------------------------------------------------
(* Observations of the width of a string's lines.                          *)

\* A width is given, and every glyph of the font advances the cursor by no
\* more than its width and is no wider than the width given.
GlyphsFit ==
    /\ InString
    /\ IsSome(text.max_width)
    /\ \A c \in FontChars :
           LET g == GetChar(text.font, c)
           IN  IsSome(g) => /\ Unwrap(g).distance <= Unwrap(g).width
                            /\ Unwrap(g).width <= Unwrap(text.max_width)

\* How far from the start of its line the k-th renderer call places its
\* glyph: cursor_x - start_x, the offset of the glyph taken off the call's x.
LineOffset(k) == renderer[k].arg[1] - CallGlyph(k).offset - text.start_x

\* C22: with such a font and width, get_string_size returns no width above
\* max_width (no line it counts is wider), and draw_string places no glyph
\* with its line offset plus its width beyond max_width.
C22_WithinMaxWidth ==
    GlyphsFit =>
        /\ ~InDraw =>
               /\ text.width <= Unwrap(text.max_width)
               /\ text.current_line_width <= Unwrap(text.max_width)
        /\ InDraw =>
               \A k \in 1..Len(renderer) :
                   /\ LineOffset(k) >= 0
                   /\ LineOffset(k) + CallGlyph(k).width <= Unwrap(text.max_width)

\* A measured string with a wrapped line and a line exactly as wide as
\* max_width.
C22_Witness ==
    /\ GlyphsFit
    /\ text.op = "measure_done"
    /\ text.wraps > 0
    /\ text.width = Unwrap(text.max_width)

=============================================================================
